---------------------------- MODULE Spec2Model ----------------------------
(***************************************************************************)
(* A model of story-grammar-loader: the JSONGrammarLoader (rule dispatch,  *)
(* settings, function registry, condition predicates) and the              *)
(* KeywordRuleBuilder (keyword shape classification, per-rule helpers),    *)
(* together with the calls they make on the external grammar engine (the   *)
(* Parser) and the engine's resolution of the rules it was given.          *)
(***************************************************************************)
EXTENDS Integers, Sequences, FiniteSets, TLC

VARIABLES
    registeredFunctions, \* JSONGrammarLoader.registeredFunctions: Map name -> FunctionDefinition
    parser,              \* the engine owned by the loader: rules, maxDepth, randomSeed,
                         \* and how far each sequential rule has got
    calls,               \* the engine calls made by the most recent operation, in order
    lastOp,              \* the most recent operation and its argument
    outcome              \* how the most recent operation ended: returned or threw

vars == <<registeredFunctions, parser, calls, lastOp, outcome>>

-----------------------------------------------------------------------------
(* Bounds of the model.                                                    *)

\* The largest number of rules in one configuration object.
MaxRules == 2

\* The largest number of resolutions of a sequential rule after it is loaded.
MaxResolutions == 5

\* The integer parameters given to randomNumber lie in -MaxParam..MaxParam.
MaxParam == 2

-----------------------------------------------------------------------------
(* JavaScript values.  A value is a record tagged with its type; objects   *)
(* are TLA+ records (functions from key strings to values).                *)

Undefined == [t |-> "undefined"]
Null == [t |-> "null"]
Bool(b) == [t |-> "boolean", v |-> b]
Num(n) == [t |-> "number", v |-> n]
Str(s) == [t |-> "string", v |-> s]
Arr(s) == [t |-> "array", v |-> s]
Obj(r) == [t |-> "object", v |-> r]

\* An object whose key order matters, given by the order of its keys and by its values.
Entries(names, bodies) ==
    [t |-> "object",
     entries |-> [i \in 1..Len(bodies) |-> [key |-> names[i], value |-> bodies[i]]]]

\* The object literal {}.
EmptyObject == Obj(<<>>)

\* 'k' in o, for an object o given as a TLA+ record.
Has(o, k) == k \in DOMAIN o

\* o.k: the value of the property, undefined when the object has none.
Get(o, k) == IF k \in DOMAIN o THEN o[k] ELSE Undefined

IsUndefined(x) == x.t = "undefined"

\* A test that only asks whether the key is there.
TruthyPresent(x) == TRUE

\* A test written x !== undefined.
TruthyDefined(x) == x.t # "undefined"

\* ToBoolean(x), as used by if (x), !x, x && y and x || y.
Truthy(x) ==
    CASE x.t = "undefined" -> FALSE
      [] x.t = "null" -> FALSE
      [] x.t = "boolean" -> x.v
      [] x.t = "number" -> x.v # 0
      [] x.t = "string" -> x.v # ""
      [] OTHER -> TRUE

\* x || y
OrElse(x, y) == IF Truthy(x) THEN x ELSE y

\* A test written without typeof, on the value itself.
IsNumberTruthy(x) == x.t # "undefined" /\ x.t # "null" /\ (x.t = "number" => x.v # 0)

\* typeof x === 'number'
IsNumber(x) == x.t = "number"

\* x === y for primitives.
StrictEq(x, y) ==
    /\ x.t = y.t
    /\ x.t \in {"boolean", "number", "string"} => x.v = y.v

\* `${x}` for the values that occur as type tags and function names.
ToStr(x) ==
    CASE x.t = "string" -> x.v
      [] x.t = "undefined" -> "undefined"
      [] x.t = "null" -> "null"
      [] x.t = "boolean" -> (IF x.v THEN "true" ELSE "false")
      [] OTHER -> "[object]"

-----------------------------------------------------------------------------
(* Errors.  A message is the sequence of the parts the code concatenates.  *)

Error(message) == [name |-> "Error", message |-> message]
SyntaxError(message) == [name |-> "SyntaxError", message |-> message]
TypeError(message) == [name |-> "TypeError", message |-> message]
ReferenceError(message) == [name |-> "ReferenceError", message |-> message]

\* A handler's result: the world it leaves, and the error it threw if any.
Ok(w) == [w |-> w, threw |-> FALSE]
Throw(w, e) == [w |-> w, threw |-> TRUE, error |-> e]

-----------------------------------------------------------------------------
(* The function registry: a Map, kept in insertion order.                  *)

MapHas(m, k) == \E i \in 1..Len(m) : m[i].key = k

MapGet(m, k) ==
    IF MapHas(m, k)
    THEN m[CHOOSE i \in 1..Len(m) : m[i].key = k].value
    ELSE Undefined

MapSet(m, k, val) ==
    IF MapHas(m, k)
    THEN [i \in 1..Len(m) |-> IF m[i].key = k THEN [key |-> k, value |-> val] ELSE m[i]]
    ELSE Append(m, [key |-> k, value |-> val])

MapKeys(m) == [i \in 1..Len(m) |-> m[i].key]

\* A registerFunction that adds an entry whether or not the name is there.
registerFunctionAppend(reg, definition) ==
    Append(reg, [key |-> definition.name, value |-> definition])

\* registerFunction(definition)
registerFunction(reg, definition) == MapSet(reg, definition.name, definition)

\* A built-in FunctionDefinition; its handler is named after it.
BuiltIn(n) == [t |-> "definition", name |-> n, handler |-> n]

\* registerDefaultFunctions(): the four built-ins, in the order registered.
registerDefaultFunctions(reg) ==
    registerFunction(
        registerFunction(
            registerFunction(
                registerFunction(reg, BuiltIn("randomNumber")),
                BuiltIn("diceRoll")),
            BuiltIn("currentTime")),
        BuiltIn("randomChoice"))

-----------------------------------------------------------------------------
(* The built-in handlers randomNumber and randomChoice.  Math.random()     *)
(* gives any number r with 0 <= r < 1, so a handler has a set of possible  *)
(* results.                                                                *)

\* The values Math.floor(Math.random() * span) can take, for an integer span.
RandomFloor(span) ==
    IF span > 0 THEN 0..(span - 1) ELSE span..0

Digits == <<"0", "1", "2", "3", "4", "5", "6", "7", "8", "9">>

\* num.toString() for an integer: an optional sign and the decimal digits.
RECURSIVE ToDecimal(_)
ToDecimal(n) ==
    IF n < 0
    THEN "-" \o ToDecimal(0 - n)
    ELSE IF n < 10
    THEN Digits[n + 1]
    ELSE ToDecimal(n \div 10) \o Digits[(n % 10) + 1]

\* The handler of randomNumber on a parameter object.
randomNumber(params) ==
    LET min == OrElse(Get(params, "min"), Num(1)).v
        max == OrElse(Get(params, "max"), Num(100)).v
    IN {Arr(<<Str(ToDecimal(f + min))>>) : f \in RandomFloor(max - min + 1)}

\* The handler of randomChoice on a parameter object: choices[randomIndex]
\* is undefined when the index is not one of the list.
randomChoice(params) ==
    LET choices == OrElse(Get(params, "choices"),
                          Arr(<<"option1", "option2", "option3">>)).v
    IN {Arr(<<IF f + 1 \in 1..Len(choices) THEN Str(choices[f + 1]) ELSE Undefined>>) :
           f \in RandomFloor(Len(choices))}

\* The possible results of a built-in handler.
InvokeBuiltIn(handler, params) ==
    CASE handler = "randomNumber" -> randomNumber(params)
      [] handler = "randomChoice" -> randomChoice(params)

-----------------------------------------------------------------------------
(* The engine (Parser), as far as the loader drives it.  A world is the    *)
(* engine together with the log of the calls made on it.                   *)

RuleNameSeq == <<"r1", "r2", "r3", "r4">>
RuleName(i) == RuleNameSeq[i]
RuleNames == {RuleName(i) : i \in 1..MaxRules}

NoRule == [op |-> "none"]
EngineDefault == [t |-> "engine-default"]

\* new Parser()
NewParser ==
    [rules |-> [n \in RuleNames |-> NoRule],
     maxDepth |-> EngineDefault,
     randomSeed |-> EngineDefault,
     sequenceIndex |-> [n \in RuleNames |-> 0]]

\* parser.hasRule(name)
HasRule(p, name) == p.rules[name] # NoRule

RegistrationOps ==
    {"addRule", "addFunctionRule", "addWeightedRule", "addConditionalRule",
     "addSequentialRule", "addRangeRule", "addTemplateRule"}

\* A registration call on the engine: the rule replaces any rule of that
\* name, and a sequential rule starts at its first value.
Register(w, call) ==
    [w EXCEPT !.parser.rules[call.name] = call,
              !.parser.sequenceIndex[call.name] = 0,
              !.calls = Append(@, call)]

\* The engine resolving a sequential rule that has got to position index
\* (from 0): the value there, and the position after it; after the last value
\* a rule that cycles starts again, a rule that does not stays at the last.
ResolveSequential(rule, index) ==
    LET n == Len(rule.values.v)
    IN [value |-> Str(rule.values.v[index + 1]),
        index |-> IF index + 1 < n
                  THEN index + 1
                  ELSE IF Truthy(rule.cycle) THEN 0 ELSE index]

\* parser.setMaxDepth(n)
SetMaxDepth(w, n) ==
    [w EXCEPT !.parser.maxDepth = n,
              !.calls = Append(@, [op |-> "setMaxDepth", arg |-> n])]

\* parser.setRandomSeed(n)
SetRandomSeed(w, n) ==
    [w EXCEPT !.parser.randomSeed = n,
              !.calls = Append(@, [op |-> "setRandomSeed", arg |-> n])]

\* parser.clearAll()
ClearAll(w) ==
    [w EXCEPT !.parser.rules = [n \in RuleNames |-> NoRule],
              !.parser.sequenceIndex = [n \in RuleNames |-> 0],
              !.calls = Append(@, [op |-> "clearAll"])]

-----------------------------------------------------------------------------
(* The predicate made by createConditionFunction.  A condition text is a   *)
(* string; the pieces it is scanned into are words, blanks and punctuation *)
(* marks.  The text is rewritten, compiled by new Function and evaluated   *)
(* on the context, all inside one try block.                               *)

\* The concatenation of a sequence of strings.
RECURSIVE Join(_)
Join(ts) == IF Len(ts) = 0 THEN "" ELSE ts[1] \o Join(Tail(ts))

\* The condition texts of these specifications, piece by piece.
ConditionPieces ==
    {<<"context", ".", "k", " ", "===", " ", "'", "v", "'">>,
     <<"context", ".", "class", " ", "===", " ", "'", "v", "'">>,
     <<"context", ".", "k", " ", "===", " ", "'", "context", ".", "a", "'">>,
     <<"context", ".", "k">>,
     <<"context", ".", "k", ".", "length">>,
     <<"context", ".", "k", " ", "===">>,
     <<"context", ".", "k", " ", "===", " ", "'", "v">>,
     <<"k", " ", "===", " ", "'", "v", "'">>,
     <<"'", "v", "'", " ", "===", " ", "'", "v", "'">>,
     <<"true">>,
     <<"false">>,
     <<"class">>}

\* The pieces of a text.
Tokenize(text) == CHOOSE ts \in ConditionPieces : Join(ts) = text

Punctuation == {".", "[", "]", "'", "===", " "}

\* \w+ : a piece that is a word.
IsWord(t) == t \notin Punctuation

\* conditionString.replace(/context\.(\w+)/g, ...): every context.word of the
\* text, wherever it stands, becomes context['word'].
RECURSIVE Rewrite(_)
Rewrite(ts) ==
    IF Len(ts) = 0
    THEN <<>>
    ELSE IF Len(ts) >= 3 /\ ts[1] = "context" /\ ts[2] = "." /\ IsWord(ts[3])
    THEN <<"context", "[", "'", ts[3], "'", "]">> \o Rewrite(SubSeq(ts, 4, Len(ts)))
    ELSE <<ts[1]>> \o Rewrite(Tail(ts))

\* The JavaScript scanner: blanks are dropped, a quote opens a string literal
\* that runs to the next quote, a literal that is not closed is an error.
RECURSIVE Lex(_)
Lex(ts) ==
    IF Len(ts) = 0
    THEN <<>>
    ELSE IF ts[1] = " "
    THEN Lex(Tail(ts))
    ELSE IF ts[1] = "'"
    THEN LET closes == {i \in 2..Len(ts) : ts[i] = "'"}
         IN IF closes = {}
            THEN <<[k |-> "bad", v |-> "'"]>>
            ELSE LET close == CHOOSE i \in closes : \A j \in closes : i <= j
                 IN <<[k |-> "str", v |-> Join(SubSeq(ts, 2, close - 1))]>>
                        \o Lex(SubSeq(ts, close + 1, Len(ts)))
    ELSE <<[k |-> (IF IsWord(ts[1]) THEN "word" ELSE "punct"), v |-> ts[1]]>>
             \o Lex(Tail(ts))

\* Words that cannot stand as an identifier.
ReservedWords == {"class", "if", "function", "return"}

\* A run of member accesses: .word or ['text'].
RECURSIVE IsChain(_)
IsChain(ls) ==
    IF Len(ls) = 0
    THEN TRUE
    ELSE IF Len(ls) >= 2 /\ ls[1] = [k |-> "punct", v |-> "."] /\ ls[2].k = "word"
    THEN IsChain(SubSeq(ls, 3, Len(ls)))
    ELSE IF /\ Len(ls) >= 3 /\ ls[1] = [k |-> "punct", v |-> "["]
            /\ ls[2].k = "str" /\ ls[3] = [k |-> "punct", v |-> "]"]
    THEN IsChain(SubSeq(ls, 4, Len(ls)))
    ELSE FALSE

\* An operand: a string literal or an identifier, then member accesses.
IsOperand(ls) ==
    /\ Len(ls) >= 1
    /\ \/ ls[1].k = "str"
       \/ ls[1].k = "word" /\ ls[1].v \notin ReservedWords
    /\ IsChain(Tail(ls))

\* The operands of e1 === e2 === ... : the runs between the === marks.
RECURSIVE Operands(_)
Operands(ls) ==
    LET marks == {i \in 1..Len(ls) : ls[i] = [k |-> "punct", v |-> "==="]}
    IN IF marks = {}
       THEN <<ls>>
       ELSE LET m == CHOOSE i \in marks : \A j \in marks : i <= j
            IN <<SubSeq(ls, 1, m - 1)>> \o Operands(SubSeq(ls, m + 1, Len(ls)))

\* new Function('context', `return ${text}`) accepts the text: nothing after
\* return, or operands joined by ===.
Compiles(ls) ==
    \/ Len(ls) = 0
    \/ \A i \in 1..Len(Operands(ls)) : IsOperand(Operands(ls)[i])

\* value[key] (value.key): the property of an object, the length of a string.
GetMember(value, key) ==
    CASE value.t \in {"undefined", "null"} ->
             [threw |-> TRUE,
              error |-> TypeError(<<"Cannot read properties of ", value.t>>)]
      [] value.t = "object" -> [threw |-> FALSE, value |-> Get(value.v, key)]
      [] value.t = "string" /\ key = "length" ->
             [threw |-> FALSE, value |-> Num(Len(value.v))]
      [] OTHER -> [threw |-> FALSE, value |-> Undefined]

\* The member accesses of an operand, applied from the left to a value.
RECURSIVE EvalChain(_, _)
EvalChain(r, ls) ==
    IF r.threw \/ Len(ls) = 0
    THEN r
    ELSE IF ls[1].v = "."
    THEN EvalChain(GetMember(r.value, ls[2].v), SubSeq(ls, 3, Len(ls)))
    ELSE EvalChain(GetMember(r.value, ls[2].v), SubSeq(ls, 4, Len(ls)))

\* The value of an operand on a context.
EvalOperand(ls, context) ==
    LET head ==
            CASE ls[1].k = "str" -> [threw |-> FALSE, value |-> Str(ls[1].v)]
              [] ls[1].v = "context" -> [threw |-> FALSE, value |-> context]
              [] ls[1].v = "true" -> [threw |-> FALSE, value |-> Bool(TRUE)]
              [] ls[1].v = "false" -> [threw |-> FALSE, value |-> Bool(FALSE)]
              [] ls[1].v = "undefined" -> [threw |-> FALSE, value |-> Undefined]
              [] OTHER -> [threw |-> TRUE,
                           error |-> ReferenceError(<<ls[1].v, " is not defined">>)]
    IN EvalChain(head, Tail(ls))

\* e1 === e2 === ... from the left, given the value so far: the first operand
\* that throws ends the evaluation.
RECURSIVE EvalEquals(_, _, _, _)
EvalEquals(r, ops, i, context) ==
    IF r.threw \/ i > Len(ops)
    THEN r
    ELSE LET right == EvalOperand(ops[i], context)
         IN IF right.threw
            THEN right
            ELSE EvalEquals([threw |-> FALSE, value |-> Bool(StrictEq(r.value, right.value))],
                            ops, i + 1, context)

\* func(context) for the compiled text.
Evaluate(ls, context) ==
    IF Len(ls) = 0
    THEN [threw |-> FALSE, value |-> Undefined]
    ELSE EvalEquals(EvalOperand(Operands(ls)[1], context), Operands(ls), 2, context)

\* The body of the try block: rewrite, compile, evaluate.
RunCondition(conditionString, context) ==
    IF conditionString.t # "string"
    THEN [threw |-> TRUE,
          error |-> TypeError(<<"evaluableCondition.replace is not a function">>)]
    ELSE LET ls == Lex(Rewrite(Tokenize(conditionString.v)))
         IN IF ~Compiles(ls)
            THEN [threw |-> TRUE, error |-> SyntaxError(<<"Unexpected token">>)]
            ELSE Evaluate(ls, context)

\* A predicate without the try block.
CallConditionUnguarded(fn, context) == RunCondition(fn.conditionString, context)

\* Calling the predicate made by createConditionFunction: whatever the text
\* evaluates to is returned, and anything thrown is caught and gives false.
CallCondition(fn, context) ==
    LET r == RunCondition(fn.conditionString, context)
    IN IF r.threw
       THEN [threw |-> FALSE, value |-> Bool(FALSE)]
       ELSE [threw |-> FALSE, value |-> r.value]

-----------------------------------------------------------------------------
(* JSONGrammarLoader: the per-type sub-loaders.  A rule configuration is a *)
(* record of JavaScript values.                                            *)

\* loadStaticRule(name, config)
loadStaticRule(w, name, config) ==
    Ok(Register(w, [op |-> "addRule", name |-> name,
                    values |-> Get(config, "values")]))

\* registeredFunctions.get(key) for a key given as a JavaScript value.
RegistryGet(reg, key) ==
    IF key.t = "string" THEN MapGet(reg, key.v) ELSE Undefined

\* The wrapper () => functionDef.handler(config.parameters || {}): a closure
\* over the definition found at load time and over the rule's configuration.
wrappedFunction(functionDef, config) ==
    [t |-> "function", functionDef |-> functionDef, config |-> config]

\* A wrapper that looks the function up when it is called.
CallWrappedLate(reg, thunk) ==
    [handler |-> RegistryGet(reg, Get(thunk.config, "functionName")).handler,
     params |-> OrElse(Get(thunk.config, "parameters"), EmptyObject)]

\* A wrapper that calls the handler without the rule's parameters.
CallWrappedNoParameters(reg, thunk) ==
    [handler |-> thunk.functionDef.handler, params |-> EmptyObject]

\* Calling the wrapper: the handler invoked and the parameters it is given.
CallWrapped(reg, thunk) ==
    [handler |-> thunk.functionDef.handler,
     params |-> OrElse(Get(thunk.config, "parameters"), EmptyObject)]

\* A loadFunctionRule that does not check what the registry returned.
loadFunctionRuleUnchecked(w, reg, name, config) ==
    Ok(Register(w, [op |-> "addFunctionRule", name |-> name,
                    fn |-> wrappedFunction(
                               RegistryGet(reg, Get(config, "functionName")), config)]))

\* loadFunctionRule(name, config)
loadFunctionRule(w, reg, name, config) ==
    LET functionDef == RegistryGet(reg, Get(config, "functionName"))
    IN IF ~Truthy(functionDef)
       THEN Throw(w, Error(<<"Unknown function: ", ToStr(Get(config, "functionName"))>>))
       ELSE Ok(Register(w, [op |-> "addFunctionRule", name |-> name,
                            fn |-> wrappedFunction(functionDef, config)]))

\* loadWeightedRule(name, config)
loadWeightedRule(w, name, config) ==
    Ok(Register(w, [op |-> "addWeightedRule", name |-> name,
                    values |-> Get(config, "values"),
                    weights |-> Get(config, "weights")]))

\* createConditionFunction(conditionString): a closure over the text; the
\* text is compiled only when the closure is called.
createConditionFunction(conditionString) ==
    [t |-> "function", conditionString |-> conditionString]

\* A callback that tests the if/then shape before the default shape.
ConditionEntryIfFirst(condition) ==
    IF /\ Has(condition, "if") /\ Has(condition, "then")
       /\ Truthy(Get(condition, "if")) /\ Truthy(Get(condition, "then"))
    THEN [ok |-> TRUE,
          entry |-> [if |-> createConditionFunction(Get(condition, "if")),
                     then |-> Get(condition, "then")]]
    ELSE IF Has(condition, "default") /\ Truthy(Get(condition, "default"))
    THEN [ok |-> TRUE, entry |-> [default |-> Get(condition, "default")]]
    ELSE [ok |-> FALSE]

\* A callback that compiles the text when the rule is loaded and rejects an
\* entry whose text does not compile.
ConditionEntryCompiled(condition) ==
    IF Has(condition, "default") /\ Truthy(Get(condition, "default"))
    THEN [ok |-> TRUE, entry |-> [default |-> Get(condition, "default")]]
    ELSE IF /\ Has(condition, "if") /\ Has(condition, "then")
            /\ Truthy(Get(condition, "if")) /\ Truthy(Get(condition, "then"))
            /\ Get(condition, "if").t = "string"
            /\ Compiles(Lex(Rewrite(Tokenize(Get(condition, "if").v))))
    THEN [ok |-> TRUE,
          entry |-> [if |-> createConditionFunction(Get(condition, "if")),
                     then |-> Get(condition, "then")]]
    ELSE [ok |-> FALSE]

\* The callback of config.conditions.map(...) on one entry.
ConditionEntry(condition) ==
    IF Has(condition, "default") /\ Truthy(Get(condition, "default"))
    THEN [ok |-> TRUE, entry |-> [default |-> Get(condition, "default")]]
    ELSE IF /\ Has(condition, "if") /\ Has(condition, "then")
            /\ Truthy(Get(condition, "if")) /\ Truthy(Get(condition, "then"))
    THEN [ok |-> TRUE,
          entry |-> [if |-> createConditionFunction(Get(condition, "if")),
                     then |-> Get(condition, "then")]]
    ELSE [ok |-> FALSE]

\* A loadConditionalRule that gives the engine the entries before the first
\* one of neither shape, and then throws.
loadConditionalRulePartial(w, name, config) ==
    LET cs == Get(config, "conditions").v
        mapped == [i \in 1..Len(cs) |-> ConditionEntry(cs[i])]
        bad == {i \in 1..Len(cs) : ~mapped[i].ok}
        upTo == IF bad = {} THEN Len(cs) ELSE (CHOOSE i \in bad : \A j \in bad : i <= j) - 1
        registered == Register(w, [op |-> "addConditionalRule", name |-> name,
                                   conditions |-> [i \in 1..upTo |-> mapped[i].entry]])
    IN IF bad # {}
       THEN Throw(registered, Error(<<"Invalid condition format">>))
       ELSE Ok(registered)

\* A loadConditionalRule that accepts a default entry only as the last entry.
loadConditionalRuleDefaultLast(w, name, config) ==
    LET cs == Get(config, "conditions").v
        mapped == [i \in 1..Len(cs) |-> ConditionEntry(cs[i])]
    IN IF \/ \E i \in 1..Len(cs) : ~mapped[i].ok
          \/ \E i \in 1..(Len(cs) - 1) : "default" \in DOMAIN mapped[i].entry
       THEN Throw(w, Error(<<"Invalid condition format">>))
       ELSE Ok(Register(w, [op |-> "addConditionalRule", name |-> name,
                            conditions |-> [i \in 1..Len(cs) |-> mapped[i].entry]]))

\* loadConditionalRule(name, config): the first entry of neither shape
\* throws out of map(), before the engine is called.
loadConditionalRule(w, name, config) ==
    LET cs == Get(config, "conditions").v
        mapped == [i \in 1..Len(cs) |-> ConditionEntry(cs[i])]
    IN IF \E i \in 1..Len(cs) : ~mapped[i].ok
       THEN Throw(w, Error(<<"Invalid condition format">>))
       ELSE Ok(Register(w, [op |-> "addConditionalRule", name |-> name,
                            conditions |-> [i \in 1..Len(cs) |-> mapped[i].entry]]))

\* A loadSequentialRule written with config.cycle || true.
loadSequentialRuleAlwaysCycle(w, name, config) ==
    Ok(Register(w, [op |-> "addSequentialRule", name |-> name,
                    values |-> Get(config, "values"),
                    cycle |-> OrElse(Get(config, "cycle"), Bool(TRUE))]))

\* A loadSequentialRule written with !!config.cycle.
loadSequentialRuleTruthyCycle(w, name, config) ==
    Ok(Register(w, [op |-> "addSequentialRule", name |-> name,
                    values |-> Get(config, "values"),
                    cycle |-> Bool(Truthy(Get(config, "cycle")))]))

\* loadSequentialRule(name, config)
loadSequentialRule(w, name, config) ==
    Ok(Register(w, [op |-> "addSequentialRule", name |-> name,
                    values |-> Get(config, "values"),
                    cycle |-> Bool(~StrictEq(Get(config, "cycle"), Bool(FALSE)))]))

\* A loadRangeRule that gives the engine "integer" when numberType is absent.
loadRangeRuleDefaultType(w, name, config) ==
    Ok(Register(w, [op |-> "addRangeRule", name |-> name,
                    min |-> Get(config, "min"),
                    max |-> Get(config, "max"),
                    step |-> Get(config, "step"),
                    type |-> OrElse(Get(config, "numberType"), Str("integer"))]))

\* loadRangeRule(name, config)
loadRangeRule(w, name, config) ==
    Ok(Register(w, [op |-> "addRangeRule", name |-> name,
                    min |-> Get(config, "min"),
                    max |-> Get(config, "max"),
                    step |-> Get(config, "step"),
                    type |-> Get(config, "numberType")]))

\* A loadTemplateRule that registers the rule as a static rule.
loadTemplateRuleAsStatic(w, name, config) ==
    Ok(Register(w, [op |-> "addRule", name |-> name,
                    values |-> Get(config, "variables")]))

\* loadTemplateRule(name, config)
loadTemplateRule(w, name, config) ==
    Ok(Register(w, [op |-> "addTemplateRule", name |-> name,
                    template |-> Get(config, "template"),
                    variables |-> Get(config, "variables")]))

\* loadRule(name, config): the switch on config.type.
loadRule(w, reg, name, config) ==
    LET type == Get(config, "type")
    IN CASE StrictEq(type, Str("static")) -> loadStaticRule(w, name, config)
         [] StrictEq(type, Str("function")) -> loadFunctionRule(w, reg, name, config)
         [] StrictEq(type, Str("weighted")) -> loadWeightedRule(w, name, config)
         [] StrictEq(type, Str("conditional")) -> loadConditionalRule(w, name, config)
         [] StrictEq(type, Str("sequential")) -> loadSequentialRule(w, name, config)
         [] StrictEq(type, Str("range")) -> loadRangeRule(w, name, config)
         [] StrictEq(type, Str("template")) -> loadTemplateRule(w, name, config)
         [] OTHER -> Throw(w, Error(<<"Unknown rule type: ", ToStr(type)>>))

\* A loadModifiers that hands a non-empty list of names to the engine.
loadModifiersApplied(w, modifierNames) ==
    IF modifierNames.t = "array" /\ Len(modifierNames.v) > 0
    THEN [w EXCEPT !.calls = Append(@, [op |-> "addModifiers", names |-> modifierNames])]
    ELSE w

\* loadModifiers(modifierNames): accepted and discarded.
loadModifiers(w, modifierNames) == w

\* A settings block that tests the fields by truthiness.
applySettingsTruthy(w, config) ==
    LET settings == Get(config, "settings")
        w1 == IF Truthy(settings) /\ Truthy(Get(settings.v, "maxDepth"))
              THEN SetMaxDepth(w, Get(settings.v, "maxDepth"))
              ELSE w
    IN IF Truthy(settings) /\ Truthy(Get(settings.v, "randomSeed"))
       THEN SetRandomSeed(w1, Get(settings.v, "randomSeed"))
       ELSE w1

\* The settings block of loadFromConfig.
applySettings(w, config) ==
    LET settings == Get(config, "settings")
        w1 == IF Truthy(settings) /\ ~IsUndefined(Get(settings.v, "maxDepth"))
              THEN SetMaxDepth(w, Get(settings.v, "maxDepth"))
              ELSE w
    IN IF Truthy(settings) /\ ~IsUndefined(Get(settings.v, "randomSeed"))
       THEN SetRandomSeed(w1, Get(settings.v, "randomSeed"))
       ELSE w1

\* for (const [ruleName, ruleConfig] of entries) this.loadRule(...): from
\* entry i on; the first rule that throws ends the loop.
RECURSIVE loadRules(_, _, _, _)
loadRules(w, reg, entries, i) ==
    IF i > Len(entries)
    THEN Ok(w)
    ELSE LET r == loadRule(w, reg, entries[i].key, entries[i].value)
         IN IF r.threw THEN r ELSE loadRules(r.w, reg, entries, i + 1)

\* A loadFromConfig that undoes the registrations of a call that fails.
loadFromConfigAtomic(w, reg, config) ==
    LET w1 == applySettings(w, config)
        r == loadRules(w1, reg, Get(config, "rules").entries, 1)
    IN IF r.threw THEN Throw(w1, r.error) ELSE r

\* A loadFromConfig that applies the settings after the rules.
loadFromConfigSettingsLast(w, reg, config) ==
    LET r == loadRules(w, reg, Get(config, "rules").entries, 1)
    IN IF r.threw THEN r ELSE Ok(applySettings(r.w, config))

\* loadFromConfig(config)
loadFromConfig(w, reg, config) ==
    LET w1 == applySettings(w, config)
        w2 == IF Truthy(Get(config, "modifiers"))
              THEN loadModifiers(w1, Get(config, "modifiers"))
              ELSE w1
        rules == Get(config, "rules")
    IN IF rules.t \in {"undefined", "null"}
       THEN Throw(w2, TypeError(<<"Cannot convert undefined or null to object">>))
       ELSE loadRules(w2, reg, rules.entries, 1)

-----------------------------------------------------------------------------
(* The engine resolving a conditional rule: the entries are evaluated in   *)
(* order, the first entry whose predicate is satisfied wins, and a default *)
(* entry is the fallback, applied only if no if entry matched.             *)

\* From entry i on: the index of the entry that wins, 0 when none does; a
\* predicate that throws ends the resolution with its error.
RECURSIVE FirstSatisfied(_, _, _)
FirstSatisfied(conditions, i, context) ==
    IF i > Len(conditions)
    THEN LET defaults == {j \in 1..Len(conditions) : "default" \in DOMAIN conditions[j]}
         IN [threw |-> FALSE,
             index |-> IF defaults = {}
                       THEN 0
                       ELSE CHOOSE j \in defaults : \A d \in defaults : j <= d]
    ELSE IF "if" \in DOMAIN conditions[i]
    THEN LET r == CallCondition(conditions[i].if, context)
         IN IF r.threw
            THEN r
            ELSE IF Truthy(r.value)
            THEN [threw |-> FALSE, index |-> i]
            ELSE FirstSatisfied(conditions, i + 1, context)
    ELSE FirstSatisfied(conditions, i + 1, context)

\* The values the winning entry offers.
ValuesOf(entry) ==
    IF "if" \in DOMAIN entry
    THEN {entry.then.v[i] : i \in 1..Len(entry.then.v)}
    ELSE {entry.default.v[i] : i \in 1..Len(entry.default.v)}

-----------------------------------------------------------------------------
(* JSON text.  A text is a sequence of tokens: an opening brace, a closing *)
(* brace, or a whole member "key": value.  JSON.parse scans the tokens.    *)

LBrace == [t |-> "{"]
RBrace == [t |-> "}"]
Member(k, val) == [t |-> "member", key |-> k, value |-> val]

\* The object a run of members denotes: a repeated key keeps its last value.
ObjectOf(members) ==
    LET keys == {members[i].key : i \in 1..Len(members)}
        last(k) == CHOOSE i \in 1..Len(members) :
                       /\ members[i].key = k
                       /\ \A j \in (i + 1)..Len(members) : members[j].key # k
    IN [k \in keys |-> members[last(k)].value]

\* JSON.parse(jsonString)
JSONParse(text) ==
    IF Len(text) = 0
    THEN [threw |-> TRUE, error |-> SyntaxError(<<"Unexpected end of JSON input">>)]
    ELSE IF text[1].t # "{"
    THEN [threw |-> TRUE, error |-> SyntaxError(<<"Unexpected token ", text[1].t>>)]
    ELSE LET stops == {i \in 2..Len(text) : text[i].t # "member"}
         IN IF stops = {}
            THEN [threw |-> TRUE,
                  error |-> SyntaxError(<<"Unexpected end of JSON input">>)]
            ELSE LET close == CHOOSE i \in stops : \A j \in stops : i <= j
                 IN IF text[close].t # "}"
                    THEN [threw |-> TRUE,
                          error |-> SyntaxError(<<"Unexpected token ", text[close].t>>)]
                    ELSE IF close < Len(text)
                    THEN [threw |-> TRUE,
                          error |-> SyntaxError(<<"Unexpected token ", text[close + 1].t>>)]
                    ELSE [threw |-> FALSE,
                          value |-> ObjectOf(SubSeq(text, 2, close - 1))]

\* A loadFromJSON that treats a text it cannot parse as an empty configuration.
loadFromJSONLenient(w, reg, jsonString) ==
    LET parsed == JSONParse(jsonString)
        config == IF parsed.threw
                  THEN [rules |-> Entries(<<>>, <<>>)]
                  ELSE parsed.value
        r == loadFromConfig(w, reg, config)
    IN IF r.threw
       THEN Throw(r.w, Error(<<"Failed to parse JSON: ">> \o r.error.message))
       ELSE r

\* loadFromJSON(jsonString): one try block around the parse and the load.
loadFromJSON(w, reg, jsonString) ==
    LET parsed == JSONParse(jsonString)
    IN IF parsed.threw
       THEN Throw(w, Error(<<"Failed to parse JSON: ">> \o parsed.error.message))
       ELSE LET r == loadFromConfig(w, reg, parsed.value)
            IN IF r.threw
               THEN Throw(r.w, Error(<<"Failed to parse JSON: ">> \o r.error.message))
               ELSE r

-----------------------------------------------------------------------------
(* KeywordRuleBuilder.                                                     *)

\* convertKeywordRule(rule): the probes, in the order of the code.
convertKeywordRule(rule) ==
    LET ruleObj == rule.v
        value(config) == [threw |-> FALSE, value |-> config]
    IN IF rule.t = "array"
       THEN value([type |-> Str("static"), values |-> rule])
       ELSE IF /\ Has(ruleObj, "if") /\ Has(ruleObj, "then")
               /\ Truthy(Get(ruleObj, "if")) /\ Truthy(Get(ruleObj, "then"))
       THEN value([type |-> Str("conditional"),
                   conditions |->
                       Arr(<<[if |-> Get(ruleObj, "if"), then |-> Get(ruleObj, "then")]>>
                           \o (IF Has(ruleObj, "else") /\ Truthy(Get(ruleObj, "else"))
                               THEN <<[default |-> Get(ruleObj, "else")]>>
                               ELSE <<>>))])
       ELSE IF /\ Has(ruleObj, "values") /\ Has(ruleObj, "weights")
               /\ Truthy(Get(ruleObj, "values")) /\ Truthy(Get(ruleObj, "weights"))
       THEN value([type |-> Str("weighted"),
                   values |-> Get(ruleObj, "values"),
                   weights |-> Get(ruleObj, "weights")])
       ELSE IF /\ Has(ruleObj, "min") /\ Has(ruleObj, "max")
               /\ IsNumber(Get(ruleObj, "min")) /\ IsNumber(Get(ruleObj, "max"))
       THEN value([type |-> Str("range"),
                   min |-> Get(ruleObj, "min"),
                   max |-> Get(ruleObj, "max"),
                   step |-> Get(ruleObj, "step"),
                   numberType |-> OrElse(Get(ruleObj, "type"), Str("integer"))])
       ELSE IF /\ Has(ruleObj, "template") /\ Has(ruleObj, "variables")
               /\ Truthy(Get(ruleObj, "template")) /\ Truthy(Get(ruleObj, "variables"))
       THEN value([type |-> Str("template"),
                   template |-> Get(ruleObj, "template"),
                   variables |-> Get(ruleObj, "variables")])
       ELSE IF Has(ruleObj, "sequence") /\ Truthy(Get(ruleObj, "sequence"))
       THEN value([type |-> Str("sequential"),
                   values |-> Get(ruleObj, "sequence"),
                   cycle |-> Get(ruleObj, "cycle")])
       ELSE IF Has(ruleObj, "function") /\ Truthy(Get(ruleObj, "function"))
       THEN value([type |-> Str("function"),
                   functionName |-> Get(ruleObj, "function"),
                   parameters |-> Get(ruleObj, "parameters")])
       ELSE [threw |-> TRUE,
             error |-> Error(<<"Unable to determine rule type from keywords">>)]

\* A loadKeywordConfig that loads what it has converted when a conversion
\* fails: the settings and the entries before the failing one.
loadKeywordConfigEager(w, reg, config) ==
    LET entries == Get(config, "rules").entries
        converted == [i \in 1..Len(entries) |-> convertKeywordRule(entries[i].value)]
        failed == {i \in 1..Len(entries) : converted[i].threw}
        upTo == IF failed = {}
                THEN Len(entries)
                ELSE (CHOOSE i \in failed : \A j \in failed : i <= j) - 1
        r == loadFromConfig(w, reg,
                 [rules |-> [t |-> "object",
                             entries |-> [i \in 1..upTo |->
                                             [key |-> entries[i].key,
                                              value |-> converted[i].value]]],
                  modifiers |-> Get(config, "modifiers"),
                  settings |-> Get(config, "settings")])
    IN IF failed = {} \/ r.threw
       THEN r
       ELSE Throw(r.w, converted[upTo + 1].error)

\* loadKeywordConfig(config): every entry is converted, then loadFromConfig
\* is called once; a conversion that throws ends the call before it.
loadKeywordConfig(w, reg, config) ==
    LET entries == Get(config, "rules").entries
        converted == [i \in 1..Len(entries) |-> convertKeywordRule(entries[i].value)]
        failed == {i \in 1..Len(entries) : converted[i].threw}
    IN IF failed # {}
       THEN Throw(w, converted[CHOOSE i \in failed : \A j \in failed : i <= j].error)
       ELSE loadFromConfig(w, reg,
                [rules |-> [t |-> "object",
                            entries |-> [i \in 1..Len(entries) |->
                                            [key |-> entries[i].key,
                                             value |-> converted[i].value]]],
                 modifiers |-> Get(config, "modifiers"),
                 settings |-> Get(config, "settings")])

\* createConditionalRule(name, condition)
createConditionalRule(w, reg, name, condition) ==
    LET ruleConfig ==
            [type |-> Str("conditional"),
             conditions |->
                 Arr(<<[if |-> Get(condition, "if"), then |-> Get(condition, "then")]>>
                     \o (IF Truthy(Get(condition, "else"))
                         THEN <<[default |-> Get(condition, "else")]>>
                         ELSE <<>>))]
    IN loadFromConfig(w, reg, [rules |-> Entries(<<name>>, <<ruleConfig>>)])

\* createWeightedRule(name, rule)
createWeightedRule(w, reg, name, rule) ==
    LET ruleConfig ==
            [type |-> Str("weighted"),
             values |-> Get(rule, "values"),
             weights |-> Get(rule, "weights")]
    IN loadFromConfig(w, reg, [rules |-> Entries(<<name>>, <<ruleConfig>>)])

\* createRangeRule(name, range)
createRangeRule(w, reg, name, range) ==
    LET ruleConfig ==
            [type |-> Str("range"),
             min |-> Get(range, "min"),
             max |-> Get(range, "max"),
             step |-> Get(range, "step"),
             numberType |-> OrElse(Get(range, "type"), Str("integer"))]
    IN loadFromConfig(w, reg, [rules |-> Entries(<<name>>, <<ruleConfig>>)])

\* createTemplateRule(name, template)
createTemplateRule(w, reg, name, template) ==
    LET ruleConfig ==
            [type |-> Str("template"),
             template |-> Get(template, "template"),
             variables |-> Get(template, "variables")]
    IN loadFromConfig(w, reg, [rules |-> Entries(<<name>>, <<ruleConfig>>)])

\* createFunctionRule(name, func)
createFunctionRule(w, reg, name, func) ==
    LET ruleConfig ==
            [type |-> Str("function"),
             functionName |-> Get(func, "function"),
             parameters |-> Get(func, "parameters")]
    IN loadFromConfig(w, reg, [rules |-> Entries(<<name>>, <<ruleConfig>>)])

\* The per-rule helper of a kind.
createRule(kind, w, reg, name, rule) ==
    CASE kind = "conditional" -> createConditionalRule(w, reg, name, rule)
      [] kind = "weighted" -> createWeightedRule(w, reg, name, rule)
      [] kind = "range" -> createRangeRule(w, reg, name, rule)
      [] kind = "template" -> createTemplateRule(w, reg, name, rule)
      [] kind = "function" -> createFunctionRule(w, reg, name, rule)

\* createSequentialRule(name, sequence)
createSequentialRule(w, reg, name, sequence) ==
    LET ruleConfig ==
            [type |-> Str("sequential"),
             values |-> Get(sequence, "sequence"),
             cycle |-> Get(sequence, "cycle")]
    IN loadFromConfig(w, reg, [rules |-> Entries(<<name>>, <<ruleConfig>>)])

-----------------------------------------------------------------------------
(* The state machine: a loader, its engine, and the calls made on them.    *)

\* The world an operation starts from: the engine, and an empty call log.
World == [parser |-> parser, calls |-> <<>>]

\* How an operation ended, without the world.
Outcome(r) ==
    IF r.threw THEN [threw |-> TRUE, error |-> r.error] ELSE [threw |-> FALSE]

\* new JSONGrammarLoader()
Init ==
    /\ registeredFunctions = registerDefaultFunctions(<<>>)
    /\ parser = NewParser
    /\ calls = <<>>
    /\ lastOp = [op |-> "new"]
    /\ outcome = [threw |-> FALSE]

\* loader.registerFunction(definition)
RegisterFunctionCall(definition) ==
    /\ registeredFunctions' = registerFunction(registeredFunctions, definition)
    /\ calls' = <<>>
    /\ lastOp' = [op |-> "registerFunction", arg |-> definition]
    /\ outcome' = [threw |-> FALSE]
    /\ UNCHANGED parser

\* loader.loadFromConfig(config)
LoadFromConfigCall(config) ==
    LET r == loadFromConfig(World, registeredFunctions, config)
    IN /\ parser' = r.w.parser
       /\ calls' = r.w.calls
       /\ lastOp' = [op |-> "loadFromConfig", arg |-> config]
       /\ outcome' = Outcome(r)
       /\ UNCHANGED registeredFunctions

\* loader.loadFromJSON(jsonString)
LoadFromJSONCall(jsonString) ==
    LET r == loadFromJSON(World, registeredFunctions, jsonString)
    IN /\ parser' = r.w.parser
       /\ calls' = r.w.calls
       /\ lastOp' = [op |-> "loadFromJSON", arg |-> jsonString]
       /\ outcome' = Outcome(r)
       /\ UNCHANGED registeredFunctions

\* The engine resolves the function rule `name`: it calls the wrapper that
\* loadFunctionRule gave it.
ResolveCall(name) ==
    /\ parser.rules[name].op = "addFunctionRule"
    /\ calls' = <<>>
    /\ lastOp' = [op |-> "resolve", arg |-> name]
    /\ outcome' = [threw |-> FALSE,
                   value |-> CallWrapped(registeredFunctions, parser.rules[name].fn)]
    /\ UNCHANGED <<registeredFunctions, parser>>

\* The engine calls the predicate of entry i of the conditional rule `name`
\* with a context.
CallConditionCall(name, i, context) ==
    /\ parser.rules[name].op = "addConditionalRule"
    /\ i \in 1..Len(parser.rules[name].conditions)
    /\ "if" \in DOMAIN parser.rules[name].conditions[i]
    /\ calls' = <<>>
    /\ lastOp' = [op |-> "callCondition", name |-> name, index |-> i,
                  context |-> context]
    /\ outcome' = CallCondition(parser.rules[name].conditions[i].if, context)
    /\ UNCHANGED <<registeredFunctions, parser>>

\* The engine resolves the conditional rule `name` on a context and yields
\* one of the values of the entry that wins, or nothing when no entry does.
ResolveConditionalCall(name, context) ==
    /\ parser.rules[name].op = "addConditionalRule"
    /\ LET r == FirstSatisfied(parser.rules[name].conditions, 1, context)
       IN IF r.threw
          THEN outcome' = r
          ELSE IF r.index = 0
          THEN outcome' = [threw |-> FALSE, value |-> Undefined]
          ELSE \E v \in ValuesOf(parser.rules[name].conditions[r.index]) :
                   outcome' = [threw |-> FALSE, value |-> Str(v)]
    /\ calls' = <<>>
    /\ lastOp' = [op |-> "resolveConditional", name |-> name, context |-> context]
    /\ UNCHANGED <<registeredFunctions, parser>>

\* builder.loadKeywordConfig(config)
LoadKeywordConfigCall(config) ==
    LET r == loadKeywordConfig(World, registeredFunctions, config)
    IN /\ parser' = r.w.parser
       /\ calls' = r.w.calls
       /\ lastOp' = [op |-> "loadKeywordConfig", arg |-> config]
       /\ outcome' = Outcome(r)
       /\ UNCHANGED registeredFunctions

\* builder.createSequentialRule(name, sequence)
CreateSequentialRuleCall(name, sequence) ==
    LET r == createSequentialRule(World, registeredFunctions, name, sequence)
    IN /\ parser' = r.w.parser
       /\ calls' = r.w.calls
       /\ lastOp' = [op |-> "createSequentialRule", name |-> name, arg |-> sequence]
       /\ outcome' = Outcome(r)
       /\ UNCHANGED registeredFunctions

\* builder.createConditionalRule, createWeightedRule, createRangeRule,
\* createTemplateRule or createFunctionRule (name, rule)
CreateRuleCall(kind, name, rule) ==
    LET r == createRule(kind, World, registeredFunctions, name, rule)
    IN /\ parser' = r.w.parser
       /\ calls' = r.w.calls
       /\ lastOp' = [op |-> "createRule", kind |-> kind, name |-> name, arg |-> rule]
       /\ outcome' = Outcome(r)
       /\ UNCHANGED registeredFunctions

\* The engine resolves the sequential rule `name`, for the nth time since the
\* operation `since` loaded it.
ResolveSequentialCall(name) ==
    /\ parser.rules[name].op = "addSequentialRule"
    /\ Len(parser.rules[name].values.v) > 0
    /\ LET nth == IF lastOp.op = "resolveSequential" THEN lastOp.nth + 1 ELSE 1
           r == ResolveSequential(parser.rules[name], parser.sequenceIndex[name])
       IN /\ nth <= MaxResolutions
          /\ parser' = [parser EXCEPT !.sequenceIndex[name] = r.index]
          /\ lastOp' = [op |-> "resolveSequential", name |-> name, nth |-> nth,
                        since |-> IF lastOp.op = "resolveSequential"
                                  THEN lastOp.since
                                  ELSE lastOp]
          /\ outcome' = [threw |-> FALSE, value |-> r.value]
    /\ calls' = <<>>
    /\ UNCHANGED registeredFunctions

\* The handler registered under `name` is called with a parameter object.
CallHandlerCall(name, params) ==
    /\ MapHas(registeredFunctions, name)
    /\ \E result \in InvokeBuiltIn(MapGet(registeredFunctions, name).handler, params) :
           outcome' = [threw |-> FALSE, value |-> result]
    /\ calls' = <<>>
    /\ lastOp' = [op |-> "callHandler", name |-> name, params |-> params]
    /\ UNCHANGED <<registeredFunctions, parser>>

\* builder.convertKeywordRule(rule), on a rule given by the caller.
ConvertRuleCall(rule) ==
    /\ lastOp' = [op |-> "convertKeywordRule", arg |-> rule]
    /\ outcome' = convertKeywordRule(rule)
    /\ calls' = <<>>
    /\ UNCHANGED <<registeredFunctions, parser>>

\* loader.getRegisteredFunctions()
GetRegisteredFunctionsCall ==
    /\ calls' = <<>>
    /\ lastOp' = [op |-> "getRegisteredFunctions"]
    /\ outcome' = [threw |-> FALSE, value |-> Arr(MapKeys(registeredFunctions))]
    /\ UNCHANGED <<registeredFunctions, parser>>

\* loader.validate(): passed to the engine, whose report is its own.
ValidateCall ==
    /\ calls' = <<>>
    /\ lastOp' = [op |-> "validate"]
    /\ outcome' = [threw |-> FALSE]
    /\ UNCHANGED <<registeredFunctions, parser>>

\* A clear() that also starts the registry afresh, as a new loader would.
ClearCallNewRegistry ==
    LET w == ClearAll(World)
    IN /\ parser' = w.parser
       /\ calls' = w.calls
       /\ lastOp' = [op |-> "clear"]
       /\ outcome' = [threw |-> FALSE]
       /\ registeredFunctions' = registerDefaultFunctions(<<>>)

\* loader.clear()
ClearCall ==
    LET w == ClearAll(World)
    IN /\ parser' = w.parser
       /\ calls' = w.calls
       /\ lastOp' = [op |-> "clear"]
       /\ outcome' = [threw |-> FALSE]
       /\ UNCHANGED registeredFunctions

-----------------------------------------------------------------------------
(* Inputs.                                                                 *)

\* A caller's FunctionDefinition.
Definition(n, h) == [t |-> "definition", name |-> n, handler |-> h]
Definitions == {Definition("f", "h1"), Definition("f", "h2")}

StaticRule == [type |-> Str("static"), values |-> Arr(<<"a", "b">>)]
FunctionRule(fn) == [type |-> Str("function"), functionName |-> Str(fn)]
BogusRule == [type |-> Str("bogus")]

SomeSettings == Obj([maxDepth |-> Num(5), randomSeed |-> Num(7)])
SettingsChoices == {Undefined, SomeSettings}

\* All sequences over S of length at most n.
SeqsUpTo(S, n) == UNION {[1..k -> S] : k \in 0..n}

\* { rules: {r1: bodies[1], ...}, settings } ; no settings key when undefined.
MakeConfig(bodies, settings) ==
    IF IsUndefined(settings)
    THEN [rules |-> Entries(RuleNameSeq, bodies)]
    ELSE [rules |-> Entries(RuleNameSeq, bodies), settings |-> settings]

\* JSON.stringify(config), as tokens.
TextOf(config) ==
    <<LBrace, Member("rules", config.rules)>>
        \o (IF Has(config, "settings")
            THEN <<Member("settings", config.settings)>>
            ELSE <<>>)
        \o <<RBrace>>

-----------------------------------------------------------------------------
(* Spec: the loader driven through loadFromConfig, registerFunction and    *)
(* clear, and the engine resolving the function rules it was given.  The   *)
(* configurations hold rules that load, rules of an unknown type, and      *)
(* function rules whose function may or may not be registered yet.         *)

Configs ==
    {MakeConfig(bodies, settings) :
        bodies \in SeqsUpTo({StaticRule, FunctionRule("f"), BogusRule}, MaxRules),
        settings \in SettingsChoices}

Next ==
    \/ \E definition \in Definitions : RegisterFunctionCall(definition)
    \/ \E config \in Configs : LoadFromConfigCall(config)
    \/ \E name \in RuleNames : ResolveCall(name)
    \/ ClearCall

Spec == Init /\ [][Next]_vars

-----------------------------------------------------------------------------
(* SpecJSON: loadFromJSON on well-formed texts, on the text {} and on      *)
(* malformed texts: a text cut short, the empty text, a text that begins   *)
(* with a closing brace, a text that goes on after its closing brace.      *)

JsonTexts ==
    {TextOf(c) : c \in Configs}
        \cup {SubSeq(TextOf(c), 1, 2) : c \in Configs}
        \cup {<<LBrace, RBrace>>, <<>>, <<RBrace>>, <<LBrace, RBrace, RBrace>>,
              <<LBrace, LBrace, RBrace>>}

NextJSON ==
    \/ \E jsonString \in JsonTexts : LoadFromJSONCall(jsonString)
    \/ ClearCall

SpecJSON == Init /\ [][NextJSON]_vars

-----------------------------------------------------------------------------
(* SpecDispatch: loadRule on one rule of every known type and of unknown   *)
(* types, loaded under any of the rule names.                              *)

WeightedRule ==
    [type |-> Str("weighted"), values |-> Arr(<<"a", "b">>), weights |-> Arr(<<8, 2>>)]
ConditionalRule(conditions) ==
    [type |-> Str("conditional"), conditions |-> Arr(conditions)]
SequentialRule == [type |-> Str("sequential"), values |-> Arr(<<"a", "b">>)]
RangeRule == [type |-> Str("range"), min |-> Num(1), max |-> Num(6)]
TemplateRule ==
    [type |-> Str("template"), template |-> Str("{x}"),
     variables |-> Obj([x |-> Arr(<<"a">>)])]

IfThen(text) == [if |-> Str(text), then |-> Arr(<<"a">>)]
Default == [default |-> Arr(<<"b">>)]

DispatchRules ==
    {StaticRule, FunctionRule("randomNumber"), FunctionRule("g"), WeightedRule,
     ConditionalRule(<<IfThen("context.k === 'v'"), Default>>),
     ConditionalRule(<<IfThen("context.k === 'v'"), IfThen("")>>),
     SequentialRule, RangeRule, TemplateRule,
     BogusRule, [type |-> Str("Static"), values |-> Arr(<<"a">>)],
     [type |-> Null], [values |-> Arr(<<"a">>)]}

DispatchConfigs ==
    {[rules |-> Entries(<<name>>, <<rule>>)] : name \in RuleNames, rule \in DispatchRules}

NextDispatch ==
    \/ \E config \in DispatchConfigs : LoadFromConfigCall(config)
    \/ ClearCall

SpecDispatch == Init /\ [][NextDispatch]_vars

-----------------------------------------------------------------------------
(* SpecKeyword: convertKeywordRule on one keyword rule: an array, or an    *)
(* object in which each keyword is absent, falsy or truthy.                *)

Absent == [t |-> "absent"]

\* The object with the keys of c that are not absent.
KeywordObject(c) == Obj([k \in {k \in DOMAIN c : c[k].t # "absent"} |-> c[k]])

\* The keyword rules: the arrays given, and every object over these choices.
KeywordRules(arrays) ==
    arrays \cup
    {KeywordObject(c) : c \in
        [if : {Absent, Str(""), Str("context.k === 'v'")},
         then : {Absent, Null, Arr(<<"a">>)},
         else : {Absent, Null, Arr(<<"b">>)},
         values : {Absent, Arr(<<"a", "b">>)},
         weights : {Absent, Arr(<<8, 2>>)},
         min : {Absent, Str("1"), Num(0)},
         max : {Absent, Num(6)},
         template : {Absent, Str(""), Str("{x}")},
         variables : {Absent, Null, Obj([x |-> Arr(<<"a">>)])},
         sequence : {Absent, Null, Arr(<<"a", "b">>)},
         function : {Absent, Str(""), Str("f")},
         type : {Absent, Str("float")}]}

InitKeyword ==
    /\ registeredFunctions = registerDefaultFunctions(<<>>)
    /\ parser = NewParser
    /\ calls = <<>>
    /\ lastOp \in {[op |-> "rule", arg |-> rule] :
                      rule \in KeywordRules({Arr(<<"a", "b">>), Arr(<<>>)})}
    /\ outcome = [threw |-> FALSE]

\* builder.convertKeywordRule(rule), on the rule at hand.
ConvertKeywordRuleCall ==
    /\ lastOp.op = "rule"
    /\ lastOp' = [op |-> "convertKeywordRule", arg |-> lastOp.arg]
    /\ outcome' = convertKeywordRule(lastOp.arg)
    /\ UNCHANGED <<registeredFunctions, parser, calls>>

NextKeyword == ConvertKeywordRuleCall

SpecKeyword == InitKeyword /\ [][NextKeyword]_vars

-----------------------------------------------------------------------------
(* SpecRegistry: registerFunction with new names and with names already    *)
(* registered, a built-in name among them, and getRegisteredFunctions.     *)

RegistryDefinitions ==
    {Definition(n, h) : n \in {"f", "g", "randomNumber"}, h \in {"h1", "h2"}}

NextRegistry ==
    \/ \E definition \in RegistryDefinitions : RegisterFunctionCall(definition)
    \/ GetRegisteredFunctionsCall

SpecRegistry == Init /\ [][NextRegistry]_vars

-----------------------------------------------------------------------------
(* SpecShapes: conditional rules whose entries have the if/then shape, the *)
(* default shape, both, or neither (an empty-string if, a missing or null  *)
(* then, a null default, an empty object), alone and in pairs.             *)

ConditionShapes ==
    {[if |-> Str("context.k === 'v'"), then |-> Arr(<<"a">>)],
     [default |-> Arr(<<"b">>)],
     [if |-> Str("context.k === 'v'"), then |-> Arr(<<"c">>), default |-> Arr(<<"d">>)],
     [if |-> Str("context.k === 'v'"), then |-> Arr(<<"e">>), default |-> Null],
     [if |-> Str(""), then |-> Arr(<<"a">>)],
     [if |-> Str("context.k === 'v'")],
     [if |-> Str("context.k === 'v'"), then |-> Null],
     [default |-> Null],
     [x \in {} |-> Undefined]}

ShapeConfigs ==
    {[rules |-> Entries(<<RuleName(1)>>, <<ConditionalRule(cs)>>)] :
        cs \in {<<c>> : c \in ConditionShapes}
                 \cup {<<c, d>> : c \in ConditionShapes, d \in ConditionShapes}}

NextShapes ==
    \/ \E config \in ShapeConfigs : LoadFromConfigCall(config)
    \/ ClearCall

SpecShapes == Init /\ [][NextShapes]_vars

-----------------------------------------------------------------------------
(* SpecCondition: a conditional rule with one if/then entry is loaded and  *)
(* the engine calls its predicate.  The texts compare a key with a value,  *)
(* name a key alone, read a property of a key, are cut short, or name a    *)
(* variable that does not exist; an `if` may also be a number.  A context  *)
(* is absent, empty, or maps the keys k and class to strings.              *)

ConditionIfs == {Str(Join(ts)) : ts \in ConditionPieces} \cup {Num(1)}

ConditionConfigs ==
    {[rules |-> Entries(<<RuleName(1)>>,
                        <<ConditionalRule(<<[if |-> c, then |-> Arr(<<"a">>)]>>)>>)] :
        c \in ConditionIfs}

Contexts ==
    {Undefined,
     EmptyObject,
     Obj([k |-> Str("v")]),
     Obj([k |-> Str("w")]),
     Obj([k |-> Str("context.a")]),
     Obj([class |-> Str("v")]),
     Obj([class |-> Str("w")]),
     Obj([k |-> Str("w"), class |-> Str("v")])}

NextCondition ==
    \/ \E config \in ConditionConfigs : LoadFromConfigCall(config)
    \/ \E context \in Contexts : CallConditionCall(RuleName(1), 1, context)

SpecCondition == Init /\ [][NextCondition]_vars

-----------------------------------------------------------------------------
(* SpecResolve: conditional rules of one, two or three entries are loaded  *)
(* and resolved on a context.  An entry tests the key k, tests the key     *)
(* class, has a text that is cut short, or is a default; every entry       *)
(* offers values of its own.                                               *)

ResolveEntries ==
    {[if |-> Str("context.k === 'v'"), then |-> Arr(<<"a1", "a2">>)],
     [if |-> Str("context.class === 'v'"), then |-> Arr(<<"b">>)],
     [if |-> Str("context.k ==="), then |-> Arr(<<"e">>)],
     [default |-> Arr(<<"d">>)]}

ResolveConfigs ==
    {[rules |-> Entries(<<RuleName(1)>>, <<ConditionalRule(cs)>>)] :
        cs \in {<<c>> : c \in ResolveEntries}
                 \cup {<<c, d>> : c \in ResolveEntries, d \in ResolveEntries}
                 \cup {<<c, d, [default |-> Arr(<<"d">>)]>> :
                           c \in ResolveEntries, d \in ResolveEntries}}

ResolveContexts ==
    {Undefined,
     EmptyObject,
     Obj([k |-> Str("v")]),
     Obj([k |-> Str("w")]),
     Obj([class |-> Str("v")]),
     Obj([k |-> Str("v"), class |-> Str("v")])}

NextResolve ==
    \/ \E config \in ResolveConfigs : LoadFromConfigCall(config)
    \/ \E context \in ResolveContexts : ResolveConditionalCall(RuleName(1), context)

SpecResolve == Init /\ [][NextResolve]_vars

-----------------------------------------------------------------------------
(* SpecSequence: a sequential rule is loaded through loadFromConfig,       *)
(* loadKeywordConfig or createSequentialRule, with `cycle` absent, true,   *)
(* false, null or 0, and is then resolved again and again.                 *)

SequenceValues == {Arr(<<"v1">>), Arr(<<"v1", "v2", "v3">>)}
CycleChoices == {Absent, Bool(TRUE), Bool(FALSE), Null, Num(0)}

\* The record with the keys of c that are not absent.
Present(c) == [k \in {k \in DOMAIN c : c[k].t # "absent"} |-> c[k]]

SequentialConfigs ==
    {[rules |-> Entries(<<RuleName(1)>>,
                        <<Present([type |-> Str("sequential"), values |-> vs, cycle |-> c])>>)] :
        vs \in SequenceValues, c \in CycleChoices}

KeywordSequences ==
    {Present([sequence |-> vs, cycle |-> c]) : vs \in SequenceValues, c \in CycleChoices}

KeywordSequenceConfigs ==
    {[rules |-> Entries(<<RuleName(1)>>, <<Obj(sequence)>>)] :
        sequence \in KeywordSequences}

NextSequence ==
    \/ \E config \in SequentialConfigs : LoadFromConfigCall(config)
    \/ \E config \in KeywordSequenceConfigs : LoadKeywordConfigCall(config)
    \/ \E sequence \in KeywordSequences : CreateSequentialRuleCall(RuleName(1), sequence)
    \/ ResolveSequentialCall(RuleName(1))

SpecSequence == Init /\ [][NextSequence]_vars

-----------------------------------------------------------------------------
(* SpecHelpers: the per-rule helpers of the KeywordRuleBuilder, and        *)
(* loadKeywordConfig on the same keyword rules.  Each rule carries only    *)
(* the fields of one helper's shape; a field may hold a value the shape    *)
(* probes reject: an empty string, null, a number given as a string.       *)

HelperRules ==
    [conditional |->
         {Present(c) : c \in [if : {Str(""), Str("context.k === 'v'")},
                              then : {Arr(<<"a">>)},
                              else : {Absent, Arr(<<"b">>)}]},
     weighted |->
         {Present(c) : c \in [values : {Null, Arr(<<"a", "b">>)},
                              weights : {Arr(<<8, 2>>)}]},
     range |->
         {Present(c) : c \in [min : {Str("1"), Num(0)},
                              max : {Num(6)},
                              step : {Absent, Num(2)},
                              type : {Absent, Str("float")}]},
     template |->
         {Present(c) : c \in [template : {Str(""), Str("{x}")},
                              variables : {Obj([x |-> Arr(<<"a">>)])}]},
     function |->
         {Present(c) : c \in [function : {Str(""), Str("randomNumber"), Str("g")},
                              parameters : {Absent, Obj([min |-> Num(1)])}]}]

HelperKinds == DOMAIN HelperRules

NextHelpers ==
    \/ \E kind \in HelperKinds : \E rule \in HelperRules[kind] :
           CreateRuleCall(kind, RuleName(1), rule)
    \/ \E sequence \in KeywordSequences : CreateSequentialRuleCall(RuleName(1), sequence)
    \/ \E kind \in HelperKinds : \E rule \in HelperRules[kind] :
           LoadKeywordConfigCall([rules |-> Entries(<<RuleName(1)>>, <<Obj(rule)>>)])
    \/ \E sequence \in KeywordSequences :
           LoadKeywordConfigCall([rules |-> Entries(<<RuleName(1)>>, <<Obj(sequence)>>)])

SpecHelpers == Init /\ [][NextHelpers]_vars

-----------------------------------------------------------------------------
(* SpecKeywordLoad: loadKeywordConfig on rules maps whose entries are an   *)
(* array, a sequence, a function that is not registered, or an object of   *)
(* no shape, with and without settings.                                    *)

KeywordArray == Arr(<<"a", "b">>)
KeywordSequence == Obj([sequence |-> Arr(<<"v1", "v2">>)])
KeywordUnknownFunction == Obj([function |-> Str("g")])
KeywordNoShape == Obj([if |-> Str(""), then |-> Arr(<<"a">>)])

KeywordLoadRules ==
    {KeywordArray, KeywordSequence, KeywordUnknownFunction, KeywordNoShape}

KeywordConfigs ==
    {MakeConfig(bodies, settings) :
        bodies \in SeqsUpTo(KeywordLoadRules, MaxRules),
        settings \in SettingsChoices}

NextKeywordLoad ==
    \/ \E config \in KeywordConfigs : LoadKeywordConfigCall(config)
    \/ ClearCall

SpecKeywordLoad == Init /\ [][NextKeywordLoad]_vars

-----------------------------------------------------------------------------
(* SpecBuiltIns: the handlers of randomNumber and randomChoice are called. *)
(* randomNumber is given integers min <= max, either of which may be left  *)
(* out; randomChoice is given a list of choices, which may be empty, or    *)
(* none.                                                                   *)

NumberParams ==
    {Present([min |-> lo, max |-> hi]) :
        lo \in {Absent} \cup {Num(n) : n \in (0 - MaxParam)..MaxParam},
        hi \in {Absent} \cup {Num(n) : n \in (0 - MaxParam)..MaxParam}}

\* min <= max, where both are given.
Ordered(params) ==
    (Has(params, "min") /\ Has(params, "max")) => params.min.v <= params.max.v

ChoiceParams ==
    {Present([choices |-> c]) :
        c \in {Absent, Arr(<<>>), Arr(<<"x">>), Arr(<<"x", "y">>)}}

NextBuiltIns ==
    \/ \E params \in {q \in NumberParams : Ordered(q)} :
           CallHandlerCall("randomNumber", params)
    \/ \E params \in ChoiceParams : CallHandlerCall("randomChoice", params)

SpecBuiltIns == Init /\ [][NextBuiltIns]_vars

-----------------------------------------------------------------------------
(* SpecFunction: function rules with and without parameters are loaded     *)
(* under two names and resolved, while functions are registered and other  *)
(* rules are loaded in between.                                            *)

ParameterChoices ==
    {Absent, EmptyObject, Obj([min |-> Num(1)]), Obj([min |-> Num(2)])}

FunctionRuleBodies ==
    {Present([type |-> Str("function"), functionName |-> Str("f"), parameters |-> ps]) :
        ps \in ParameterChoices}

FunctionConfigs ==
    {[rules |-> Entries(<<name>>, <<body>>)] :
        name \in {RuleName(1), RuleName(2)},
        body \in FunctionRuleBodies \cup {StaticRule}}

NextFunction ==
    \/ \E definition \in Definitions : RegisterFunctionCall(definition)
    \/ \E config \in FunctionConfigs : LoadFromConfigCall(config)
    \/ \E name \in {RuleName(1), RuleName(2)} : ResolveCall(name)

SpecFunction == Init /\ [][NextFunction]_vars

-----------------------------------------------------------------------------
(* SpecRange: range rules in the keyword style are converted and loaded,   *)
(* and range rules in the explicit style are loaded.  The bounds include   *)
(* 0 and a negative number; step and the number type may be left out.      *)

RangeFields ==
    [min : {Num(0), Num(0 - 1)},
     max : {Num(0), Num(6)},
     step : {Absent, Num(2)},
     type : {Absent, Str("float"), Str("integer")}]

KeywordRanges == {KeywordObject(c) : c \in RangeFields}

ExplicitRanges ==
    {Present([type |-> Str("range"), min |-> c.min, max |-> c.max, step |-> c.step,
              numberType |-> c.type]) : c \in RangeFields}

NextRange ==
    \/ \E rule \in KeywordRanges : ConvertRuleCall(rule)
    \/ \E rule \in KeywordRanges :
           LoadKeywordConfigCall([rules |-> Entries(<<RuleName(1)>>, <<rule>>)])
    \/ \E rule \in ExplicitRanges :
           LoadFromConfigCall([rules |-> Entries(<<RuleName(1)>>, <<rule>>)])

SpecRange == Init /\ [][NextRange]_vars

-----------------------------------------------------------------------------
(* SpecModifiers: configurations with and without a modifiers list are     *)
(* loaded; the list is empty, names a modifier, or names an unknown one.   *)

ModifierChoices ==
    {Absent, Arr(<<>>), Arr(<<"capitalize">>), Arr(<<"capitalize", "nope">>)}

ModifierConfigs ==
    {Present([rules |-> Entries(RuleNameSeq, bodies), settings |-> settings,
              modifiers |-> modifiers]) :
        bodies \in SeqsUpTo({StaticRule, BogusRule}, MaxRules),
        settings \in {Absent, SomeSettings},
        modifiers \in ModifierChoices}

NextModifiers == \E config \in ModifierConfigs : LoadFromConfigCall(config)

SpecModifiers == Init /\ [][NextModifiers]_vars

-----------------------------------------------------------------------------
(* SpecLifetime: every operation of the loader, in any order: functions    *)
(* are registered, rules are loaded in the three ways (some loads fail),   *)
(* function rules are resolved, the grammar is validated and cleared, and  *)
(* the registry is listed.                                                 *)

LifetimeDefinitions == {Definition("f", "h1"), Definition("g", "h1")}

LifetimeConfigs ==
    {[rules |-> Entries(<<RuleName(1)>>, <<body>>)] :
        body \in {FunctionRule("f"), FunctionRule("g"), StaticRule, BogusRule}}

LifetimeTexts ==
    {TextOf([rules |-> Entries(<<RuleName(1)>>, <<FunctionRule("f")>>)]), <<>>}

LifetimeKeywordConfigs ==
    {[rules |-> Entries(<<RuleName(1)>>, <<rule>>)] :
        rule \in {KeywordUnknownFunction, KeywordNoShape, KeywordArray}}

NextLifetime ==
    \/ \E definition \in LifetimeDefinitions : RegisterFunctionCall(definition)
    \/ \E config \in LifetimeConfigs : LoadFromConfigCall(config)
    \/ \E jsonString \in LifetimeTexts : LoadFromJSONCall(jsonString)
    \/ \E config \in LifetimeKeywordConfigs : LoadKeywordConfigCall(config)
    \/ ResolveCall(RuleName(1))
    \/ ValidateCall
    \/ ClearCall
    \/ GetRegisteredFunctionsCall

SpecLifetime == Init /\ [][NextLifetime]_vars

-----------------------------------------------------------------------------
(* SpecCompile: conditional rules of one or two entries are loaded and the *)
(* engine calls the predicates of their entries, again and again.  An      *)
(* entry tests the key k, has a text that is not an expression (cut short, *)
(* a literal left open, a reserved word), or is a default.                 *)

CompileEntries ==
    {[if |-> Str("context.k === 'v'"), then |-> Arr(<<"a">>)],
     [if |-> Str("context.k ==="), then |-> Arr(<<"e">>)],
     [if |-> Str("context.k === 'v"), then |-> Arr(<<"f">>)],
     [if |-> Str("class"), then |-> Arr(<<"g">>)],
     [default |-> Arr(<<"d">>)]}

CompileConfigs ==
    {[rules |-> Entries(<<RuleName(1)>>, <<ConditionalRule(cs)>>)] :
        cs \in {<<c>> : c \in CompileEntries}
                 \cup {<<c, d>> : c \in CompileEntries, d \in CompileEntries}}

CompileContexts == {Undefined, Obj([k |-> Str("v")]), Obj([k |-> Str("w")])}

NextCompile ==
    \/ \E config \in CompileConfigs : LoadFromConfigCall(config)
    \/ \E i \in 1..2, context \in CompileContexts :
           CallConditionCall(RuleName(1), i, context)

SpecCompile == Init /\ [][NextCompile]_vars

-----------------------------------------------------------------------------
(* SpecSettings: configurations are loaded one after the other.  A         *)
(* configuration has no settings, empty settings, or settings with one or  *)
(* both fields, 0 among the values; its rules load, or one of them fails.  *)

SettingsBlocks ==
    {Absent,
     EmptyObject,
     Obj([maxDepth |-> Num(0)]),
     Obj([randomSeed |-> Num(0)]),
     Obj([maxDepth |-> Num(3)]),
     SomeSettings}

SettingsConfigs ==
    {Present([rules |-> Entries(RuleNameSeq, bodies), settings |-> settings]) :
        bodies \in {<<>>, <<StaticRule>>, <<BogusRule>>, <<StaticRule, BogusRule>>},
        settings \in SettingsBlocks}

NextSettings == \E config \in SettingsConfigs : LoadFromConfigCall(config)

SpecSettings == Init /\ [][NextSettings]_vars

-----------------------------------------------------------------------------
(* The error kinds of the specification, told apart by the message.        *)

ErrorKind(e) ==
    CASE e.message[1] = "Failed to parse JSON: " -> "JsonParseError"
      [] e.message[1] = "Unknown rule type: " -> "UnknownRuleTypeError"
      [] e.message[1] = "Unknown function: " -> "UnknownFunctionError"
      [] e.message[1] = "Invalid condition format" -> "InvalidConditionFormatError"
      [] e.message[1] = "Unable to determine rule type from keywords" ->
             "AmbiguousRuleShapeError"
      [] OTHER -> e.name

\* The indices of the registration calls in a call log, and their rule names.
Registrations(cs) == {i \in 1..Len(cs) : cs[i].op \in RegistrationOps}
RegisteredBy(cs) == {cs[i].name : i \in Registrations(cs)}
SettingCalls(cs) == {i \in 1..Len(cs) : cs[i].op \in {"setMaxDepth", "setRandomSeed"}}

\* The least element of a non-empty set of integers.
Least(S) == CHOOSE i \in S : \A j \in S : i <= j

\* The outcome of loading the single rule of an entry, given the registry.
LoadAlone(entry) == loadRule(World, registeredFunctions, entry.key, entry.value)

-----------------------------------------------------------------------------
(* Properties.                                                             *)

\* C1: loadFromConfig is not transactional.  When the rule at position k, in
\* iteration order, is the first that fails to load, the call fails with that
\* rule's error, every rule at positions 1..k-1 has been registered by the
\* call and is in the engine, and no rule at position k or later has been
\* registered by the call.
C1_NotTransactional ==
    (lastOp.op = "loadFromConfig" /\ outcome.threw) =>
        LET entries == lastOp.arg.rules.entries
            failing == {i \in 1..Len(entries) : LoadAlone(entries[i]).threw}
        IN /\ failing # {}
           /\ LET k == Least(failing)
              IN /\ outcome.error = LoadAlone(entries[k]).error
                 /\ \A i \in 1..(k - 1) :
                        /\ HasRule(parser, entries[i].key)
                        /\ entries[i].key \in RegisteredBy(calls)
                 /\ \A i \in k..Len(entries) : entries[i].key \notin RegisteredBy(calls)

\* C1 witness: a call failed at its second rule; its first rule is in the
\* engine, registered by the call, and so is a rule of the failing name that
\* an earlier call registered.
C1_Witness ==
    /\ lastOp.op = "loadFromConfig"
    /\ outcome.threw
    /\ Len(lastOp.arg.rules.entries) = 2
    /\ RegisteredBy(calls) = {"r1"}
    /\ HasRule(parser, "r1")
    /\ HasRule(parser, "r2")

\* C7: within one loadFromConfig call every setMaxDepth / setRandomSeed call
\* precedes the first registration call, and after a successful load with
\* settings {maxDepth: d, randomSeed: s} the engine holds d and s.
C7_SettingsFirst ==
    lastOp.op = "loadFromConfig" =>
        /\ \A i \in SettingCalls(calls) : \A j \in Registrations(calls) : i < j
        /\ (~outcome.threw /\ Has(lastOp.arg, "settings")) =>
               /\ parser.maxDepth = lastOp.arg.settings.v.maxDepth
               /\ parser.randomSeed = lastOp.arg.settings.v.randomSeed
               /\ SettingCalls(calls) # {}

\* C7 witness: a successful load with settings and two rules.
C7_Witness ==
    /\ lastOp.op = "loadFromConfig"
    /\ ~outcome.threw
    /\ Has(lastOp.arg, "settings")
    /\ Cardinality(Registrations(calls)) = 2
    /\ parser.maxDepth = Num(5)
    /\ parser.randomSeed = Num(7)

\* A text is well-formed when it is an opening brace, members, and a closing
\* brace.
WellFormed(text) ==
    /\ Len(text) >= 2
    /\ text[1] = LBrace
    /\ text[Len(text)] = RBrace
    /\ \A i \in 2..(Len(text) - 1) : text[i].t = "member"

\* C5: loadFromJSON on a text that is not well-formed JSON fails with
\* JsonParseError carrying the parse message, and makes no engine call.
C5_MalformedJson ==
    (lastOp.op = "loadFromJSON" /\ ~WellFormed(lastOp.arg)) =>
        /\ outcome.threw
        /\ ErrorKind(outcome.error) = "JsonParseError"
        /\ outcome.error.message =
               <<"Failed to parse JSON: ">> \o JSONParse(lastOp.arg).error.message
        /\ calls = <<>>

\* C5 witness: a text cut short before its closing brace was rejected while
\* the engine held a rule.
C5_Witness ==
    /\ lastOp.op = "loadFromJSON"
    /\ Len(lastOp.arg) = 2
    /\ lastOp.arg[2].t = "member"
    /\ outcome.threw
    /\ outcome.error.message = <<"Failed to parse JSON: ", "Unexpected end of JSON input">>
    /\ HasRule(parser, "r1")

\* C6: for a well-formed text that holds a configuration (an object with
\* rules), loadFromJSON has the outcome of loadFromConfig on the parsed
\* configuration: the same engine calls, and on failure the same error kind;
\* JsonParseError is raised only for malformed text.
C6_SameAsLoadFromConfig ==
    (/\ lastOp.op = "loadFromJSON"
     /\ WellFormed(lastOp.arg)
     /\ Has(JSONParse(lastOp.arg).value, "rules")) =>
        LET r == loadFromConfig(World, registeredFunctions, JSONParse(lastOp.arg).value)
        IN /\ outcome.threw = r.threw
           /\ calls = r.w.calls
           /\ outcome.threw =>
                  /\ ErrorKind(outcome.error) = ErrorKind(r.error)
                  /\ ErrorKind(outcome.error) # "JsonParseError"

\* The types loadRule knows, and the engine call of each.
KnownTypes ==
    {"static", "function", "weighted", "conditional", "sequential", "range", "template"}

MatchingOp(type) ==
    CASE type = "static" -> "addRule"
      [] type = "function" -> "addFunctionRule"
      [] type = "weighted" -> "addWeightedRule"
      [] type = "conditional" -> "addConditionalRule"
      [] type = "sequential" -> "addSequentialRule"
      [] type = "range" -> "addRangeRule"
      [] type = "template" -> "addTemplateRule"

\* The type of the single rule of the last load, and whether loadRule knows it.
LoadedType == Get(lastOp.arg.rules.entries[1].value, "type")
LoadedKnown == LoadedType.t = "string" /\ LoadedType.v \in KnownTypes

\* C8, the part on unknown types: a rule whose type is none of the seven
\* (or that has no type) fails with UnknownRuleTypeError naming the tag, and
\* no registration call is made for it.
UnknownTypeRejected ==
    ~LoadedKnown =>
        /\ outcome.threw
        /\ ErrorKind(outcome.error) = "UnknownRuleTypeError"
        /\ outcome.error.message[2] =
               (IF Has(lastOp.arg.rules.entries[1].value, "type")
                THEN ToStr(LoadedType) ELSE "undefined")
        /\ Registrations(calls) = {}

\* C8 as stated: in addition, each known type never raises
\* UnknownRuleTypeError and makes exactly one registration call, of the
\* matching kind.
C8_Original ==
    lastOp.op = "loadFromConfig" =>
        /\ UnknownTypeRejected
        /\ LoadedKnown =>
               /\ ~(outcome.threw /\ ErrorKind(outcome.error) = "UnknownRuleTypeError")
               /\ Cardinality(Registrations(calls)) = 1
               /\ \A i \in Registrations(calls) : calls[i].op = MatchingOp(LoadedType.v)

\* C8 as amended: each known type never raises UnknownRuleTypeError and
\* makes at most one registration call, of the matching kind: exactly one
\* when the rule loads, and none when its sub-loader fails (a function that
\* is not registered, a condition entry of neither shape).
C8_Dispatch ==
    lastOp.op = "loadFromConfig" =>
        /\ UnknownTypeRejected
        /\ LoadedKnown =>
               /\ \A i \in Registrations(calls) :
                      /\ calls[i].op = MatchingOp(LoadedType.v)
                      /\ calls[i].name = lastOp.arg.rules.entries[1].key
               /\ ~outcome.threw => Cardinality(Registrations(calls)) = 1
               /\ outcome.threw =>
                      /\ Registrations(calls) = {}
                      /\ ErrorKind(outcome.error) \in
                             {"UnknownFunctionError", "InvalidConditionFormatError"}
                      /\ LoadedType.v \in {"function", "conditional"}

\* C8 witness: a template rule was loaded by one addTemplateRule call, over
\* an engine that holds a rule of another kind.
C8_Witness ==
    /\ lastOp.op = "loadFromConfig"
    /\ LoadedKnown
    /\ LoadedType.v = "template"
    /\ ~outcome.threw
    /\ Cardinality(Registrations(calls)) = 1
    /\ calls[1].op = "addTemplateRule"
    /\ \E n \in RuleNames : parser.rules[n].op = "addSequentialRule"

\* The values JavaScript takes for false: undefined, null, false, 0, "".
IsFalsy(x) ==
    \/ x.t \in {"undefined", "null"}
    \/ x.t = "boolean" /\ ~x.v
    \/ x.t = "number" /\ x.v = 0
    \/ x.t = "string" /\ x.v = ""

\* The keyword object has the key, with a value that is not falsy.
Given(o, k) == k \in DOMAIN o /\ ~IsFalsy(o[k])
\* The keyword object has the key, with a number.
Numeric(o, k) == k \in DOMAIN o /\ o[k].t = "number"
\* The keyword object has the key, with a falsy value.
GivenFalsy(o, k) == k \in DOMAIN o /\ IsFalsy(o[k])

\* The probes of the shape classification, in their order, on a keyword rule.
ProbeType ==
    <<"static", "conditional", "weighted", "range", "template", "sequential", "function">>
ProbeFields ==
    <<{"type", "values"}, {"type", "conditions"}, {"type", "values", "weights"},
      {"type", "min", "max", "step", "numberType"}, {"type", "template", "variables"},
      {"type", "values", "cycle"}, {"type", "functionName", "parameters"}>>
ProbeHolds(rule) ==
    IF rule.t = "array"
    THEN <<TRUE, FALSE, FALSE, FALSE, FALSE, FALSE, FALSE>>
    ELSE <<FALSE,
           Given(rule.v, "if") /\ Given(rule.v, "then"),
           Given(rule.v, "values") /\ Given(rule.v, "weights"),
           Numeric(rule.v, "min") /\ Numeric(rule.v, "max"),
           Given(rule.v, "template") /\ Given(rule.v, "variables"),
           Given(rule.v, "sequence"),
           Given(rule.v, "function")>>
Matching(rule) == {i \in 1..7 : ProbeHolds(rule)[i]}

\* The type of the converted rule, "none" when the conversion failed.
ConvertedType == IF outcome.threw THEN "none" ELSE outcome.value.type.v

\* C2: convertKeywordRule returns the type of the earliest probe that matches,
\* in the order array, if+then, values+weights, numeric min+max,
\* template+variables, sequence, function, with the fields of that shape only,
\* and fails with AmbiguousRuleShapeError when no probe matches.
C2_ProbeOrder ==
    lastOp.op = "convertKeywordRule" =>
        IF Matching(lastOp.arg) = {}
        THEN outcome.threw /\ ErrorKind(outcome.error) = "AmbiguousRuleShapeError"
        ELSE /\ ~outcome.threw
             /\ outcome.value.type = Str(ProbeType[Least(Matching(lastOp.arg))])
             /\ DOMAIN outcome.value = ProbeFields[Least(Matching(lastOp.arg))]

\* C2 witness: an object that satisfies the conditional, weighted, range and
\* sequential probes was converted to a conditional rule.
C2_Witness ==
    /\ lastOp.op = "convertKeywordRule"
    /\ {2, 3, 4, 6} \subseteq Matching(lastOp.arg)
    /\ ConvertedType = "conditional"
    /\ DOMAIN outcome.value = {"type", "conditions"}

\* C3: a key that is present but falsy does not trigger its probe.  An object
\* with values and weights whose `if` or `then` is missing or falsy is
\* weighted, never conditional; a falsy `if`, `then`, `template`, `variables`,
\* `sequence` or `function` keeps the object out of the type of that key.
C3_FalsyFallsThrough ==
    (lastOp.op = "convertKeywordRule" /\ lastOp.arg.t = "object") =>
        LET o == lastOp.arg.v
        IN /\ (/\ Given(o, "values") /\ Given(o, "weights")
               /\ ~(Given(o, "if") /\ Given(o, "then"))) => ConvertedType = "weighted"
           /\ (GivenFalsy(o, "if") \/ GivenFalsy(o, "then")) => ConvertedType # "conditional"
           /\ (GivenFalsy(o, "template") \/ GivenFalsy(o, "variables")) =>
                  ConvertedType # "template"
           /\ GivenFalsy(o, "sequence") => ConvertedType # "sequential"
           /\ GivenFalsy(o, "function") => ConvertedType # "function"

\* C3 witness: an object with values, weights, a truthy `then` and an
\* empty-string `if` was converted to a weighted rule.
C3_Witness ==
    /\ lastOp.op = "convertKeywordRule"
    /\ lastOp.arg.t = "object"
    /\ Given(lastOp.arg.v, "values") /\ Given(lastOp.arg.v, "weights")
    /\ Given(lastOp.arg.v, "then")
    /\ "if" \in DOMAIN lastOp.arg.v /\ lastOp.arg.v["if"] = Str("")
    /\ GivenFalsy(lastOp.arg.v, "function")
    /\ ConvertedType = "weighted"

\* C4: a keyword object classified as conditional converts to a conditions
\* list whose first entry is the object's {if, then} pair; the list has two
\* entries, the second being {default: else}, when `else` is truthy, and one
\* entry otherwise; it never has more than one `if` or one `default` entry.
C4_SingleBranch ==
    (lastOp.op = "convertKeywordRule" /\ ConvertedType = "conditional") =>
        LET o == lastOp.arg.v
            cs == outcome.value.conditions.v
        IN /\ cs[1] = [if |-> o["if"], then |-> o["then"]]
           /\ Len(cs) = (IF Given(o, "else") THEN 2 ELSE 1)
           /\ Len(cs) = 2 => cs[2] = [default |-> o["else"]]
           /\ Cardinality({i \in 1..Len(cs) : "if" \in DOMAIN cs[i]}) = 1
           /\ Cardinality({i \in 1..Len(cs) : "default" \in DOMAIN cs[i]}) <= 1

\* C4 witness: a conversion with a truthy `else` gave two entries.
C4_Witness ==
    /\ lastOp.op = "convertKeywordRule"
    /\ ConvertedType = "conditional"
    /\ Given(lastOp.arg.v, "else")
    /\ Len(outcome.value.conditions.v) = 2
    /\ outcome.value.conditions.v[2] = [default |-> Arr(<<"b">>)]

\* The function rules among the entries of a configuration, and whether the
\* function of an entry is in the registry.
IsFunctionRule(entry) == Get(entry.value, "type") = Str("function")
FunctionRegistered(entry) ==
    \E i \in 1..Len(registeredFunctions) :
        Str(registeredFunctions[i].key) = Get(entry.value, "functionName")

\* The entries a load reached: those before the failing one, and it.
Reached(entries) ==
    {i \in 1..Len(entries) : \A j \in 1..(i - 1) : ~LoadAlone(entries[j]).threw}

\* C9: a function rule's functionName is resolved when the rule is loaded.  A
\* name that is not registered then fails the load with UnknownFunctionError
\* and the rule is not registered; registering a function makes no engine
\* call, so it does not make the rule exist; a name that is registered loads,
\* and no resolution of a loaded rule fails.
C9_ResolvedAtLoad ==
    /\ lastOp.op = "loadFromConfig" =>
           LET entries == lastOp.arg.rules.entries
           IN \A i \in Reached(entries) :
                  IsFunctionRule(entries[i]) =>
                      IF FunctionRegistered(entries[i])
                      THEN /\ entries[i].key \in RegisteredBy(calls)
                           /\ parser.rules[entries[i].key].op = "addFunctionRule"
                      ELSE /\ outcome.threw
                           /\ ErrorKind(outcome.error) = "UnknownFunctionError"
                           /\ outcome.error.message[2] = entries[i].value.functionName.v
                           /\ entries[i].key \notin RegisteredBy(calls)
    /\ lastOp.op = "registerFunction" => calls = <<>>
    /\ lastOp.op = "resolve" => ~outcome.threw /\ outcome.value.handler \in {"h1", "h2"}

\* C9 witness: a load failed at its second rule, a function rule whose
\* function was not registered, and the engine holds no rule of that name.
C9_Witness ==
    /\ lastOp.op = "loadFromConfig"
    /\ outcome.threw
    /\ ErrorKind(outcome.error) = "UnknownFunctionError"
    /\ RegisteredBy(calls) = {"r1"}
    /\ ~HasRule(parser, "r2")

\* The handler now registered under the function name of an engine rule.
RegisteredHandler(rule) ==
    MapGet(registeredFunctions, rule.fn.config.functionName.v).handler

\* C10 as stated: every resolution of a rule invokes the handler that is
\* registered under the rule's function name at the time of the resolution,
\* whether the rule was loaded before or after the last registration.
C10_Original ==
    lastOp.op = "resolve" =>
        outcome.value.handler = RegisteredHandler(parser.rules[lastOp.arg])

\* C10 as amended: a function rule is bound, when it is loaded, to the
\* handler registered under its function name at that moment; a registration
\* leaves the rules of the engine as they are; and every resolution invokes
\* the handler the rule is bound to.  So after registerFunction(f, h1) and
\* registerFunction(f, h2), a rule loaded after the second registration
\* resolves with h2, and a rule loaded between the two still resolves with h1.
C10_BoundAtLoad ==
    /\ [](lastOp.op = "loadFromConfig" =>
             \A i \in Registrations(calls) :
                 calls[i].op = "addFunctionRule" =>
                     calls[i].fn.functionDef.handler = RegisteredHandler(calls[i]))
    /\ [](lastOp.op = "resolve" =>
             outcome.value.handler = parser.rules[lastOp.arg].fn.functionDef.handler)
    /\ [][lastOp'.op \notin {"loadFromConfig", "clear"} => parser'.rules = parser.rules]_vars

\* C10 witness: h2 is registered under f, and a rule loaded when h1 was
\* registered was resolved with h1, while the engine also holds a rule bound
\* to h2.
C10_Witness ==
    /\ lastOp.op = "resolve"
    /\ outcome.value.handler = "h1"
    /\ MapGet(registeredFunctions, "f").handler = "h2"
    /\ \E n \in RuleNames :
           /\ parser.rules[n].op = "addFunctionRule"
           /\ parser.rules[n].fn.functionDef.handler = "h2"

-----------------------------------------------------------------------------
\* The names a registry may hold in these specifications.
FunctionNames ==
    {"f", "g", "randomNumber", "diceRoll", "currentTime", "randomChoice"}

\* A sequence that lists no element twice.
NoRepeats(s) == \A i, j \in 1..Len(s) : s[i] = s[j] => i = j

\* C11: registerFunction is an upsert on the Function Registry.  After
\* registerFunction(d) the registry maps d.name to d and every other name keeps
\* the definition it had; re-registering a name that is there (a built-in name
\* included) leaves the number of names unchanged, a new name adds one; and
\* getRegisteredFunctions lists each registered name exactly once.
C11_Upsert ==
    /\ [](lastOp.op = "getRegisteredFunctions" =>
            /\ NoRepeats(outcome.value.v)
            /\ \A n \in FunctionNames :
                   MapHas(registeredFunctions, n) <=>
                       \E i \in 1..Len(outcome.value.v) : outcome.value.v[i] = n)
    /\ [][lastOp'.op = "registerFunction" =>
            LET d == lastOp'.arg
            IN /\ ~outcome'.threw
               /\ MapGet(registeredFunctions', d.name) = d
               /\ \A n \in FunctionNames \ {d.name} :
                      MapGet(registeredFunctions', n) = MapGet(registeredFunctions, n)
               /\ Len(MapKeys(registeredFunctions')) =
                      IF MapHas(registeredFunctions, d.name)
                      THEN Len(MapKeys(registeredFunctions))
                      ELSE Len(MapKeys(registeredFunctions)) + 1]_vars

\* The built-in randomNumber has been replaced by a caller's definition, f has
\* been registered a second time with another handler, and the names are listed.
C11_Witness ==
    /\ lastOp.op = "getRegisteredFunctions"
    /\ MapGet(registeredFunctions, "randomNumber") = Definition("randomNumber", "h1")
    /\ MapGet(registeredFunctions, "f") = Definition("f", "h2")
    /\ outcome.value.v =
           <<"randomNumber", "diceRoll", "currentTime", "randomChoice", "f">>

-----------------------------------------------------------------------------
\* The shapes of an entry of `conditions`, as the claims word them.
IsIfThen(c) == Truthy(Get(c, "if")) /\ Truthy(Get(c, "then"))
IsDefault(c) == Truthy(Get(c, "default"))

\* What the engine was given for an entry: {if: predicate of the text, then}.
ForwardedIfThen(f, c) ==
    /\ DOMAIN f = {"if", "then"}
    /\ f.if.t = "function"
    /\ f.if.conditionString = Get(c, "if")
    /\ f.then = Get(c, "then")

\* What the engine was given for an entry: {default}.
ForwardedDefault(f, c) == f = [default |-> Get(c, "default")]

\* The conditions of the conditional rule that the last call loaded as r1.
LoadedConditions == lastOp.arg.rules.entries[1].value.conditions.v

LoadedConditional ==
    /\ lastOp.op = "loadFromConfig"
    /\ Len(lastOp.arg.rules.entries) = 1
    /\ StrictEq(Get(lastOp.arg.rules.entries[1].value, "type"), Str("conditional"))

\* An entry of neither shape fails the load with InvalidConditionFormatError,
\* before any call on the engine.
NeitherShapeRejected ==
    (\E i \in 1..Len(LoadedConditions) :
         ~IsIfThen(LoadedConditions[i]) /\ ~IsDefault(LoadedConditions[i]))
    => /\ outcome.threw
       /\ ErrorKind(outcome.error) = "InvalidConditionFormatError"
       /\ calls = <<>>

\* C12 as stated: every entry with a truthy if and a truthy then is forwarded
\* as {if, then}, every entry with a truthy default as {default}.
C12_Original ==
    LoadedConditional =>
        /\ NeitherShapeRejected
        /\ (\A i \in 1..Len(LoadedConditions) :
                IsIfThen(LoadedConditions[i]) \/ IsDefault(LoadedConditions[i]))
           => /\ ~outcome.threw
              /\ Len(calls) = 1
              /\ calls[1].op = "addConditionalRule"
              /\ Len(calls[1].conditions) = Len(LoadedConditions)
              /\ \A i \in 1..Len(LoadedConditions) :
                     /\ IsIfThen(LoadedConditions[i]) =>
                            ForwardedIfThen(calls[1].conditions[i], LoadedConditions[i])
                     /\ IsDefault(LoadedConditions[i]) =>
                            ForwardedDefault(calls[1].conditions[i], LoadedConditions[i])

\* C12: when a conditional rule is loaded, each entry of `conditions` is
\* handled by its shape, the default shape first: an entry with a truthy
\* default is forwarded as {default: the same values}, whatever else it
\* carries; an entry without a truthy default and with a truthy if and a truthy
\* then is forwarded as {if: predicate of that text, then: the same values}; the
\* entries are forwarded in their order in one addConditionalRule call; an
\* entry of neither shape fails the load with InvalidConditionFormatError.
C12_ByShape ==
    LoadedConditional =>
        /\ NeitherShapeRejected
        /\ (\A i \in 1..Len(LoadedConditions) :
                IsIfThen(LoadedConditions[i]) \/ IsDefault(LoadedConditions[i]))
           => /\ ~outcome.threw
              /\ Len(calls) = 1
              /\ calls[1].op = "addConditionalRule"
              /\ Len(calls[1].conditions) = Len(LoadedConditions)
              /\ \A i \in 1..Len(LoadedConditions) :
                     IF IsDefault(LoadedConditions[i])
                     THEN ForwardedDefault(calls[1].conditions[i], LoadedConditions[i])
                     ELSE ForwardedIfThen(calls[1].conditions[i], LoadedConditions[i])

\* A rule was loaded whose first entry carries a truthy if, then and default
\* and whose second entry has the if/then shape alone.
C12_Witness ==
    /\ LoadedConditional
    /\ ~outcome.threw
    /\ Len(LoadedConditions) = 2
    /\ IsIfThen(LoadedConditions[1]) /\ IsDefault(LoadedConditions[1])
    /\ IsIfThen(LoadedConditions[2]) /\ ~IsDefault(LoadedConditions[2])
    /\ parser.rules[RuleName(1)].conditions[1] = [default |-> Arr(<<"d">>)]

-----------------------------------------------------------------------------
\* The text of the predicate that the last call invoked.
CalledText == parser.rules[lastOp.name].conditions[lastOp.index].if.conditionString

\* Texts that are not expressions: cut short, a literal left open, a reserved
\* word; and a text that names a variable that does not exist.
MalformedTexts == {"context.k ===", "context.k === 'v", "class"}
UnboundTexts == {"k === 'v'"}

\* Texts that read a key of the context.
ContextTexts ==
    {"context.k === 'v'", "context.class === 'v'", "context.k",
     "context.k.length"}

\* C13: a compiled condition predicate is fail-closed.  Calling it never
\* propagates an error, whatever the text and the context: a text that is not
\* a string, a malformed text, a text naming an unknown variable, a text
\* reading a key of an absent context or a property of a missing key, and any
\* other error raised while rewriting, compiling or evaluating, give false.
C13_FailClosed ==
    lastOp.op = "callCondition" =>
        /\ ~outcome.threw
        /\ CalledText.t # "string" => outcome.value = Bool(FALSE)
        /\ CalledText.t = "string" =>
               /\ CalledText.v \in MalformedTexts \cup UnboundTexts =>
                      outcome.value = Bool(FALSE)
               /\ CalledText.v \in ContextTexts /\ lastOp.context = Undefined =>
                      outcome.value = Bool(FALSE)
               /\ (/\ CalledText.v = "context.k.length"
                   /\ lastOp.context.t = "object"
                   /\ ~Has(lastOp.context.v, "k")) =>
                      outcome.value = Bool(FALSE)
        /\ RunCondition(CalledText, lastOp.context).threw => outcome.value = Bool(FALSE)

\* The predicate of a text cut short was called, and the predicate of
\* context.k.length was called on a context without k.
C13_Witness ==
    /\ lastOp.op = "callCondition"
    /\ \/ CalledText = Str("context.k ===")
       \/ CalledText = Str("context.k.length") /\ lastOp.context = EmptyObject
    /\ outcome = [threw |-> FALSE, value |-> Bool(FALSE)]

\* C14: the result of a compiled condition predicate is exactly true or exactly
\* false, for every condition text and every context.
C14_Boolean ==
    lastOp.op = "callCondition" => ~outcome.threw /\ outcome.value.t = "boolean"

\* The texts context.K === 'V' of the model, with their K and V.
KeyValueTexts ==
    {[text |-> "context.k === 'v'", key |-> "k", value |-> "v"],
     [text |-> "context.class === 'v'", key |-> "class", value |-> "v"],
     [text |-> "context.k === 'context.a'", key |-> "k", value |-> "context.a"]}

\* The context maps the key to the string.
MapsTo(context, key, value) ==
    /\ context.t = "object"
    /\ Has(context.v, key)
    /\ context.v[key] = Str(value)

\* C15: for a text context.K === 'V' the compiled predicate returns true
\* exactly when the context maps K to the string V, and false when it maps K
\* to another string or has no entry for K, K a reserved word included.
C15_KeyEqualsValue ==
    lastOp.op = "callCondition" =>
        \A kv \in KeyValueTexts :
            CalledText = Str(kv.text) =>
                outcome = [threw |-> FALSE,
                           value |-> Bool(MapsTo(lastOp.context, kv.key, kv.value))]

-----------------------------------------------------------------------------
\* What the condition texts of SpecResolve say of a context: a comparison of
\* a key with 'v' holds when the context maps the key to "v"; the text that is
\* cut short raises an error on every context and never holds.
HoldsOn(text, context) ==
    CASE text = "context.k === 'v'" -> MapsTo(context, "k", "v")
      [] text = "context.class === 'v'" -> MapsTo(context, "class", "v")
      [] OTHER -> FALSE

\* The entries of the rule resolved last, and its if entries that hold.
ResolvedConditions == parser.rules[lastOp.name].conditions

HoldingEntries ==
    {i \in 1..Len(ResolvedConditions) :
        /\ "if" \in DOMAIN ResolvedConditions[i]
        /\ HoldsOn(ResolvedConditions[i].if.conditionString.v, lastOp.context)}

DefaultValues ==
    UNION {ValuesOf(ResolvedConditions[i]) :
              i \in {j \in 1..Len(ResolvedConditions) :
                         "default" \in DOMAIN ResolvedConditions[j]}}

\* C16: a resolution of a loaded conditional rule yields a value from the then
\* list of the first if entry, in list order, whose predicate holds on the
\* context; a value of a default entry is produced only when no if entry
\* holds; an if entry whose predicate raises an error counts as not holding,
\* the resolution does not fail and the later entries are still tried.
C16_FirstMatch ==
    lastOp.op = "resolveConditional" =>
        /\ ~outcome.threw
        /\ HoldingEntries # {} =>
               /\ outcome.value.t = "string"
               /\ outcome.value.v \in ValuesOf(ResolvedConditions[Least(HoldingEntries)])
        /\ (outcome.value.t = "string" /\ outcome.value.v \in DefaultValues) =>
               HoldingEntries = {}
        /\ (HoldingEntries = {} /\ DefaultValues # {}) =>
               outcome.value.t = "string" /\ outcome.value.v \in DefaultValues

\* The rule's first entry raises an error, its second holds and is the one
\* that gave the value, its third is a default.
C16_Witness ==
    /\ lastOp.op = "resolveConditional"
    /\ Len(ResolvedConditions) = 3
    /\ "if" \in DOMAIN ResolvedConditions[1]
    /\ ResolvedConditions[1].if.conditionString = Str("context.k ===")
    /\ HoldingEntries = {2}
    /\ outcome = [threw |-> FALSE, value |-> Str("b")]

-----------------------------------------------------------------------------
\* The values and the `cycle` that an operation gave for the sequential rule
\* it loaded: a rule configuration, a keyword rule, or the helper's argument.
GivenSequence(op) ==
    CASE op.op = "loadFromConfig" ->
             [values |-> Get(op.arg.rules.entries[1].value, "values"),
              cycle |-> Get(op.arg.rules.entries[1].value, "cycle")]
      [] op.op = "loadKeywordConfig" ->
             [values |-> Get(op.arg.rules.entries[1].value.v, "sequence"),
              cycle |-> Get(op.arg.rules.entries[1].value.v, "cycle")]
      [] op.op = "createSequentialRule" ->
             [values |-> Get(op.arg, "sequence"), cycle |-> Get(op.arg, "cycle")]

LoadOps == {"loadFromConfig", "loadKeywordConfig", "createSequentialRule"}

\* C17: the cycle flag passed to the engine for a sequential rule is false
\* exactly when the rule's cycle is explicitly false and true in every other
\* case; loadKeywordConfig and createSequentialRule pass cycle through, so a
\* keyword rule without cycle reaches the engine with cycle true and one with
\* cycle false reaches it with cycle false.
C17_CycleFlag ==
    lastOp.op \in LoadOps =>
        /\ ~outcome.threw
        /\ Len(calls) = 1
        /\ calls[1].op = "addSequentialRule"
        /\ calls[1].values = GivenSequence(lastOp).values
        /\ calls[1].cycle \in {Bool(TRUE), Bool(FALSE)}
        /\ calls[1].cycle = Bool(FALSE) <=> GivenSequence(lastOp).cycle = Bool(FALSE)

\* A keyword rule with cycle false has reached the engine with cycle false.
C17_Witness ==
    /\ lastOp.op = "loadKeywordConfig"
    /\ GivenSequence(lastOp).cycle = Bool(FALSE)
    /\ parser.rules[RuleName(1)].cycle = Bool(FALSE)

\* C18: the nth resolution of a sequential rule loaded with values v1..vn
\* returns the nth value for the first n resolutions; after that the values
\* repeat from v1 when cycle is true or absent, and the last value is returned
\* on every later resolution when cycle is false.
C18_SequenceOrder ==
    lastOp.op = "resolveSequential" =>
        LET given == GivenSequence(lastOp.since)
            n == Len(given.values.v)
            m == lastOp.nth
        IN /\ ~outcome.threw
           /\ m <= n => outcome.value = Str(given.values.v[m])
           /\ (m > n /\ given.cycle \in {Undefined, Bool(TRUE)}) =>
                  outcome.value = Str(given.values.v[((m - 1) % n) + 1])
           /\ (m > n /\ given.cycle = Bool(FALSE)) =>
                  outcome.value = Str(given.values.v[n])

\* The fifth resolution of a rule of three values loaded without cycle gave
\* the second value.
C18_Witness ==
    /\ lastOp.op = "resolveSequential"
    /\ lastOp.nth = 5
    /\ GivenSequence(lastOp.since) = [values |-> Arr(<<"v1", "v2", "v3">>), cycle |-> Undefined]
    /\ outcome.value = Str("v2")

-----------------------------------------------------------------------------
\* loadKeywordConfig({rules: {name: rule}}) from the state at hand.
ViaKeywordConfig(name, rule) ==
    loadKeywordConfig(World, registeredFunctions,
                      [rules |-> Entries(<<name>>, <<Obj(rule)>>)])

\* C19: each per-rule keyword helper called with (name, obj) has the same
\* outcome as loadKeywordConfig({rules: {name: obj}}), for every obj that
\* carries only the fields of the helper's shape: the same calls are made on
\* the engine and the same rule is registered, or the same error is raised.
C19_HelperAsKeywordConfig ==
    [][lastOp'.op \in {"createRule", "createSequentialRule"} =>
           LET r == ViaKeywordConfig(lastOp'.name, lastOp'.arg)
           IN /\ outcome' = Outcome(r)
              /\ calls' = r.w.calls
              /\ parser' = r.w.parser]_vars

-----------------------------------------------------------------------------
\* The entries of the rules map given to the last loadKeywordConfig.
KeywordEntries == lastOp.arg.rules.entries

\* The entries that have no shape, and those that convert to a rule which
\* does not load.
NoShapeEntries ==
    {i \in 1..Len(KeywordEntries) : KeywordEntries[i].value = KeywordNoShape}

NotLoadingEntries ==
    {i \in 1..Len(KeywordEntries) : KeywordEntries[i].value = KeywordUnknownFunction}

\* The engine call that the canonical rule of a keyword rule makes.
ExpectedRegistration(name, rule) ==
    IF rule = KeywordArray
    THEN [op |-> "addRule", name |-> name, values |-> Arr(<<"a", "b">>)]
    ELSE [op |-> "addSequentialRule", name |-> name,
          values |-> Arr(<<"v1", "v2">>), cycle |-> Bool(TRUE)]

\* The engine calls of the caller's settings.
ExpectedSettings ==
    IF Has(lastOp.arg, "settings")
    THEN <<[op |-> "setMaxDepth", arg |-> lastOp.arg.settings.v.maxDepth],
           [op |-> "setRandomSeed", arg |-> lastOp.arg.settings.v.randomSeed]>>
    ELSE <<>>

\* C20: loadKeywordConfig converts every entry of the rules map before it
\* makes any call on the loader or engine.  If an entry at any position has no
\* shape, the call fails with AmbiguousRuleShapeError and no setting has been
\* applied and no rule registered, the entries before it included.  Otherwise
\* loadFromConfig runs once on the converted rules with the caller's settings:
\* the settings are applied once, first, and the rules are registered in order
\* up to the first that does not load.
C20_ConvertThenLoad ==
    lastOp.op = "loadKeywordConfig" =>
        IF NoShapeEntries # {}
        THEN /\ outcome.threw
             /\ ErrorKind(outcome.error) = "AmbiguousRuleShapeError"
             /\ calls = <<>>
        ELSE LET loaded == IF NotLoadingEntries = {}
                           THEN Len(KeywordEntries)
                           ELSE Least(NotLoadingEntries) - 1
             IN /\ calls = ExpectedSettings \o
                           [i \in 1..loaded |->
                               ExpectedRegistration(KeywordEntries[i].key,
                                                    KeywordEntries[i].value)]
                /\ outcome.threw <=> NotLoadingEntries # {}
                /\ outcome.threw => ErrorKind(outcome.error) = "UnknownFunctionError"

\* A keyword configuration with settings, whose first entry is an array and
\* whose second has no shape, has failed and left the engine as it was.
C20_Witness ==
    /\ lastOp.op = "loadKeywordConfig"
    /\ Has(lastOp.arg, "settings")
    /\ Len(KeywordEntries) = 2
    /\ NoShapeEntries = {2}
    /\ KeywordEntries[1].value = KeywordArray
    /\ outcome.threw
    /\ calls = <<>>
    /\ parser = NewParser

-----------------------------------------------------------------------------
\* The bounds a caller of randomNumber states: an omitted min means 1, an
\* omitted max means 100.
StatedMin(params) == IF Has(params, "min") THEN params.min.v ELSE 1
StatedMax(params) == IF Has(params, "max") THEN params.max.v ELSE 100

\* C21: randomNumber, called with integers min <= max (0 and negative numbers
\* included), returns a sequence of exactly one element, the decimal text of
\* an integer n with min <= n <= max; an omitted min means 1 and an omitted
\* max means 100.
C21_InRange ==
    (lastOp.op = "callHandler" /\ lastOp.name = "randomNumber") =>
        /\ ~outcome.threw
        /\ Len(outcome.value.v) = 1
        /\ \E n \in StatedMin(lastOp.params)..StatedMax(lastOp.params) :
               outcome.value.v[1] = Str(ToDecimal(n))

\* The list of choices a caller of randomChoice states.
StatedChoices(params) ==
    IF Has(params, "choices") THEN params.choices.v ELSE <<"option1", "option2", "option3">>

\* C22: randomChoice returns a sequence of exactly one element, a string that
\* is a member of the choices list it was given, or of [option1, option2,
\* option3] when choices is omitted, for every list a caller can pass.
C22_MemberOfChoices ==
    (lastOp.op = "callHandler" /\ lastOp.name = "randomChoice") =>
        /\ ~outcome.threw
        /\ Len(outcome.value.v) = 1
        /\ outcome.value.v[1].t = "string"
        /\ \E i \in 1..Len(StatedChoices(lastOp.params)) :
               outcome.value.v[1].v = StatedChoices(lastOp.params)[i]

-----------------------------------------------------------------------------
\* The parameter object a rule configuration states: the one it gives, or an
\* empty object when it gives none.
GivenParameters(config) ==
    IF "parameters" \in DOMAIN config THEN config.parameters ELSE Obj(<<>>)

\* The names whose rule a load registered.
LoadedNames == {calls[i].name : i \in 1..Len(calls)}

\* C23: every invocation of a function rule passes the handler the parameter
\* object given in the rule's configuration when the rule was loaded, or an
\* empty object when the configuration gave none.  The function given to the
\* engine holds the configuration of the load; a resolution passes the
\* parameters of the configuration it holds; and a resolution, a
\* registerFunction or a load of another rule leaves the function of the
\* rule as it is.
C23_ParametersFixedAtLoad ==
    /\ [](lastOp.op = "loadFromConfig" =>
            \A i \in 1..Len(calls) :
                calls[i].op = "addFunctionRule" =>
                    \E j \in 1..Len(lastOp.arg.rules.entries) :
                        /\ lastOp.arg.rules.entries[j].key = calls[i].name
                        /\ calls[i].fn.config = lastOp.arg.rules.entries[j].value
                        /\ parser.rules[calls[i].name] = calls[i])
    /\ [](lastOp.op = "resolve" =>
            /\ ~outcome.threw
            /\ outcome.value.params =
                   GivenParameters(parser.rules[lastOp.arg].fn.config))
    /\ [][\A name \in RuleNames :
            (lastOp'.op \in {"resolve", "registerFunction"}
                \/ (lastOp'.op = "loadFromConfig" /\ name \notin LoadedNames')) =>
                parser'.rules[name] = parser.rules[name]]_vars

\* C23 witness: a function rule loaded with parameters {min: 1} is resolved
\* after another function was registered under its name, while the other
\* rule name holds a function rule with other parameters; the handler gets
\* {min: 1}.
C23_Witness ==
    /\ lastOp.op = "resolve"
    /\ lastOp.arg = RuleName(1)
    /\ outcome.value.params = Obj([min |-> Num(1)])
    /\ outcome.value.handler = "h1"
    /\ MapGet(registeredFunctions, "f").handler = "h2"
    /\ parser.rules[RuleName(2)].op = "addFunctionRule"
    /\ GivenParameters(parser.rules[RuleName(2)].fn.config) = Obj([min |-> Num(2)])

-----------------------------------------------------------------------------
\* The field of an object as JavaScript reads it: undefined when not there.
FieldOrUndefined(o, k) == IF k \in DOMAIN o THEN o[k] ELSE [t |-> "undefined"]

\* C24: a keyword object with numeric min and max (0 included) that reaches
\* the range probe converts to a range config with the same min, max and
\* step, and with numberType the object's type, or "integer" when it has no
\* type; loadRangeRule forwards min, max, step and numberType to the engine
\* as they are, undefined when numberType is absent.
C24_RangeForwarded ==
    /\ lastOp.op = "convertKeywordRule" =>
           LET o == lastOp.arg.v
           IN /\ ~outcome.threw
              /\ outcome.value.type = Str("range")
              /\ outcome.value.min = o.min
              /\ outcome.value.max = o.max
              /\ outcome.value.step = FieldOrUndefined(o, "step")
              /\ outcome.value.numberType =
                     (IF "type" \in DOMAIN o THEN o.type ELSE Str("integer"))
    /\ lastOp.op = "loadFromConfig" =>
           LET config == lastOp.arg.rules.entries[1].value
           IN /\ ~outcome.threw
              /\ Len(calls) = 1
              /\ calls[1].op = "addRangeRule"
              /\ calls[1].name = lastOp.arg.rules.entries[1].key
              /\ calls[1].min = config.min
              /\ calls[1].max = config.max
              /\ calls[1].step = FieldOrUndefined(config, "step")
              /\ calls[1].type = FieldOrUndefined(config, "numberType")
              /\ parser.rules[calls[1].name] = calls[1]
    /\ lastOp.op = "loadKeywordConfig" =>
           LET o == lastOp.arg.rules.entries[1].value.v
           IN /\ ~outcome.threw
              /\ Len(calls) = 1
              /\ calls[1].op = "addRangeRule"
              /\ calls[1].min = o.min
              /\ calls[1].max = o.max
              /\ calls[1].step = FieldOrUndefined(o, "step")
              /\ calls[1].type =
                     (IF "type" \in DOMAIN o THEN o.type ELSE Str("integer"))

\* C24 witness: an explicit range rule from 0 to 0 without numberType was
\* loaded; the engine is given the bounds 0 and an undefined type.
C24_Witness ==
    /\ lastOp.op = "loadFromConfig"
    /\ lastOp.arg.rules.entries[1].value.min = Num(0)
    /\ lastOp.arg.rules.entries[1].value.max = Num(0)
    /\ "numberType" \notin DOMAIN lastOp.arg.rules.entries[1].value
    /\ calls[1].type = [t |-> "undefined"]
    /\ calls[1].min = Num(0)

-----------------------------------------------------------------------------
\* The same configuration without its modifiers.
WithoutModifiers(config) == [k \in DOMAIN config \ {"modifiers"} |-> config[k]]

\* C25: modifiers is a no-op.  A loadFromConfig of a configuration with a
\* modifiers list, empty or not, with unknown names or not, makes the engine
\* calls and has the outcome of the same call on the configuration without
\* its modifiers, and leaves the engine as that call does.
C25_ModifiersIgnored ==
    [][(lastOp'.op = "loadFromConfig" /\ "modifiers" \in DOMAIN lastOp'.arg) =>
          LET r == loadFromConfig(World, registeredFunctions,
                                  WithoutModifiers(lastOp'.arg))
          IN /\ calls' = r.w.calls
             /\ outcome' = Outcome(r)
             /\ parser' = r.w.parser
             /\ \A i \in 1..Len(calls') :
                    calls'[i].op \in RegistrationOps \cup {"setMaxDepth", "setRandomSeed"}]_vars

\* C25 witness: a configuration with settings, a rule that loads and a
\* modifiers list with an unknown name was loaded; the engine was given the
\* settings and the rule, and nothing else.
C25_Witness ==
    /\ lastOp.op = "loadFromConfig"
    /\ "modifiers" \in DOMAIN lastOp.arg
    /\ lastOp.arg.modifiers = Arr(<<"capitalize", "nope">>)
    /\ ~outcome.threw
    /\ Len(calls) = 3
    /\ calls[3].op = "addRule"

-----------------------------------------------------------------------------
\* The names of the four built-in functions.
BuiltInNames == {"randomNumber", "diceRoll", "currentTime", "randomChoice"}

\* The names in the registry.
RegisteredNames == {registeredFunctions[i].key : i \in 1..Len(registeredFunctions)}

\* C26: the registry lives as long as its loader.  After any sequence of
\* operations, failing ones included, it holds the four built-in names and
\* every name ever registered, and getRegisteredFunctions lists them; only
\* registerFunction changes it; clear() removes the rules of the engine and
\* leaves the registry as it is; and a function rule that names a
\* registered function loads right after clear().
C26_RegistryPersists ==
    /\ [](BuiltInNames \subseteq RegisteredNames)
    /\ [](lastOp.op = "registerFunction" => lastOp.arg.name \in RegisteredNames)
    /\ [](lastOp.op = "getRegisteredFunctions" =>
            {outcome.value.v[i] : i \in 1..Len(outcome.value.v)} = RegisteredNames)
    /\ [][RegisteredNames \subseteq RegisteredNames']_vars
    /\ [][lastOp'.op # "registerFunction" =>
            registeredFunctions' = registeredFunctions]_vars
    /\ [][lastOp'.op = "clear" =>
            \A name \in RuleNames : ~HasRule(parser', name)]_vars
    /\ [][(/\ lastOp.op = "clear"
           /\ lastOp'.op = "loadFromConfig"
           /\ IsFunctionRule(lastOp'.arg.rules.entries[1])
           /\ lastOp'.arg.rules.entries[1].value.functionName.v \in RegisteredNames) =>
              /\ ~outcome'.threw
              /\ parser'.rules[lastOp'.arg.rules.entries[1].key].op = "addFunctionRule"]_vars

\* C26 witness: clear() has just been called: the engine has no rule, and
\* the registry holds the built-in names and the two names registered by the
\* caller.
C26_Witness ==
    /\ lastOp.op = "clear"
    /\ \A name \in RuleNames : ~HasRule(parser, name)
    /\ RegisteredNames = BuiltInNames \cup {"f", "g"}

-----------------------------------------------------------------------------
\* The entries of neither shape in the conditional rule of the last call.
InvalidEntries ==
    {i \in 1..Len(LoadedConditions) :
        ~IsIfThen(LoadedConditions[i]) /\ ~IsDefault(LoadedConditions[i])}

\* C27: a conditional rule is registered all-or-nothing.  When an entry of
\* its conditions, at any position, has an invalid format, the load throws,
\* addConditionalRule is not called, and the engine (with the rule that was
\* registered under the name before, if any) is left as it was.
C27_AllOrNothing ==
    [][(LoadedConditional' /\ InvalidEntries' # {}) =>
          /\ outcome'.threw
          /\ calls' = <<>>
          /\ parser' = parser]_vars

\* C27 witness: a load whose first entry is valid and whose second entry is
\* not has failed, and the conditional rule registered before under the name
\* is in the engine.
C27_Witness ==
    /\ LoadedConditional
    /\ InvalidEntries = {2}
    /\ outcome.threw
    /\ parser.rules[RuleName(1)].op = "addConditionalRule"

\* The shape by which an entry of the configuration is taken, and the shape
\* of an entry given to the engine.
ShapeOf(c) == IF IsDefault(c) THEN "default" ELSE "if"
ForwardedShape(f) == IF "default" \in DOMAIN f THEN "default" ELSE "if"

\* C29: the conditions given to the engine for a conditional rule that loads
\* are as many as those of the configuration and in the same order; an
\* entry with a truthy default and an if/then is given as a default entry
\* only, without predicate; and a rule loads whatever the number and the
\* positions of its default entries.
C29_SameOrder ==
    (LoadedConditional /\ InvalidEntries = {}) =>
        /\ ~outcome.threw
        /\ calls # <<>>
        /\ [i \in 1..Len(calls[1].conditions) |-> ForwardedShape(calls[1].conditions[i])]
               = [i \in 1..Len(LoadedConditions) |-> ShapeOf(LoadedConditions[i])]
        /\ \A i \in 1..Len(LoadedConditions) :
               LET f == calls[1].conditions[i]
                   c == LoadedConditions[i]
               IN IF IsDefault(c)
                  THEN DOMAIN f = {"default"} /\ f.default = c.default
                  ELSE f.if.conditionString = c.if /\ f.then = c.then

\* C29 witness: a rule whose first entry is a default and whose second entry
\* carries a truthy default with an if/then was loaded; the engine was given
\* two default entries.
C29_Witness ==
    /\ LoadedConditional
    /\ ~outcome.threw
    /\ Len(LoadedConditions) = 2
    /\ DOMAIN LoadedConditions[1] = {"default"}
    /\ DOMAIN LoadedConditions[2] = {"if", "then", "default"}
    /\ calls[1].conditions = <<[default |-> LoadedConditions[1].default],
                               [default |-> LoadedConditions[2].default]>>

-----------------------------------------------------------------------------
\* C28: a condition text is compiled when its predicate is evaluated, never
\* when the rule is loaded.  A conditional rule whose if texts are non-empty
\* strings, malformed ones included, loads and is registered with every
\* entry, each predicate holding the text as it was given; every evaluation
\* of a malformed text gives false; an evaluation changes nothing in the
\* engine, so that the rule keeps its entries; and the predicate of another
\* entry of the same rule still gives what its text says.
C28_CompiledAtEvaluation ==
    /\ [](LoadedConditional =>
            /\ ~outcome.threw
            /\ Len(calls) = 1
            /\ calls[1].op = "addConditionalRule"
            /\ parser.rules[calls[1].name] = calls[1]
            /\ Len(calls[1].conditions) = Len(LoadedConditions)
            /\ \A i \in 1..Len(LoadedConditions) :
                   "if" \in DOMAIN LoadedConditions[i] =>
                       calls[1].conditions[i].if.conditionString = LoadedConditions[i].if)
    /\ [](lastOp.op = "callCondition" =>
            /\ ~outcome.threw
            /\ CalledText.v \in MalformedTexts => outcome.value = Bool(FALSE)
            /\ CalledText.v = "context.k === 'v'" =>
                   outcome.value = Bool(lastOp.context = Obj([k |-> Str("v")])))
    /\ [][lastOp'.op = "callCondition" => parser' = parser]_vars

\* C28 witness: in a rule whose first entry has a text cut short, the
\* predicate of the second entry was called and gave true.
C28_Witness ==
    /\ lastOp.op = "callCondition"
    /\ lastOp.index = 2
    /\ "if" \in DOMAIN parser.rules[lastOp.name].conditions[1]
    /\ parser.rules[lastOp.name].conditions[1].if.conditionString = Str("context.k ===")
    /\ CalledText = Str("context.k === 'v'")
    /\ outcome = [threw |-> FALSE, value |-> Bool(TRUE)]

-----------------------------------------------------------------------------
\* The settings of a configuration define a field.
DefinesSetting(config, field) ==
    /\ "settings" \in DOMAIN config
    /\ field \in DOMAIN config.settings.v

\* C30: after any sequence of loads, maxDepth (and likewise randomSeed) of
\* the engine is the value given by the latest load whose settings had the
\* field, or the default of the engine when no load had it.  A new loader
\* has the defaults; a load whose settings have the field sets it to the
\* value given, 0 included, whether or not a rule of the load fails; a load
\* without settings or without the field leaves it as it was.
C30_LastSettingWins ==
    /\ [](lastOp.op = "new" =>
            parser.maxDepth = EngineDefault /\ parser.randomSeed = EngineDefault)
    /\ [][lastOp'.op = "loadFromConfig" =>
            /\ parser'.maxDepth =
                   (IF DefinesSetting(lastOp'.arg, "maxDepth")
                    THEN lastOp'.arg.settings.v.maxDepth
                    ELSE parser.maxDepth)
            /\ parser'.randomSeed =
                   (IF DefinesSetting(lastOp'.arg, "randomSeed")
                    THEN lastOp'.arg.settings.v.randomSeed
                    ELSE parser.randomSeed)]_vars

\* C30 witness: a load whose settings give maxDepth 0 and no randomSeed, and
\* whose rule fails, has set maxDepth to 0 and has left the randomSeed 7 of
\* an earlier load.
C30_Witness ==
    /\ lastOp.op = "loadFromConfig"
    /\ DefinesSetting(lastOp.arg, "maxDepth")
    /\ ~DefinesSetting(lastOp.arg, "randomSeed")
    /\ outcome.threw
    /\ parser.maxDepth = Num(0)
    /\ parser.randomSeed = Num(7)

=============================================================================
